---- MODULE Spec2Model ----
(***************************************************************************)
(* Request-admission pipeline of ai-cli-server: Authenticate -> RateLimit  *)
(* -> HandleChatCompletion -> provider Execute -> CreateUsageLog; with it  *)
(* the operator tool that creates and deletes clients, the admin handler   *)
(* and the usage statistics.                                               *)
(*                                                                         *)
(* Time is a clock of ticks, TicksPerMinute ticks to the minute.  A token  *)
(* bucket holds its tokens in units of 1/TicksPerMinute of a token, which  *)
(* makes the limiter's arithmetic (rate = limit/60 tokens per second)      *)
(* exact on the grid: a limiter of N per minute gains N units per tick,    *)
(* holds at most N * TicksPerMinute units and a request costs              *)
(* TicksPerMinute units.                                                   *)
(***************************************************************************)
EXTENDS Integers, Sequences, FiniteSets, TLC

VARIABLES
    now,          \* the wall clock, in ticks
    clients,      \* table clients: id -> row
    installed,    \* provider name -> its binary resolves on PATH
    modelsCache,  \* provider name -> cached model names (modelsCache/modelsCached)
    limiters,     \* RateLimitMiddleware.limiters: client id -> limiter handle (0: no entry)
    limObj,       \* the rate.Limiter objects: handle -> [tokens, last, burst, perMinute]
    rateBuckets,  \* table rate_limit_buckets: <<client id, window start>> -> request_count
    usageLogs,    \* table usage_logs: sequence of rows in insertion order
    nextLogId,    \* usage_logs AUTOINCREMENT sequence
    req,          \* the requests: id -> the state of its goroutine
    rl,           \* history: client id -> tick -> [avail: the units in the client's
                  \* bucket when the tick began (-1: no bucket), calls: the calls of
                  \* Allow() in the tick, admits: those that returned true]
    nextClientId, \* clients AUTOINCREMENT sequence
    issued,       \* history: the <<API key, client id>> pairs shown to an operator
    op,           \* history: the last operation of the operator tool or admin handler
    del,          \* the operator's deletion in progress: [pc, id]
    stats,        \* the GetUsageStats call in progress and what it has read so far
    call,         \* one call of a helper of the handlers: [fn, args, done, out]
    mi,           \* the GetModelsInfo calls in progress: the providers' mutexes, the
                  \* callers' positions, and the discoveries and commits so far
    sweep         \* the ticker of cleanupLimiters: [next: the tick of its next firing]

\* What the chat pipeline leaves alone: the state of the operator tool, of the admin
\* handler and of the usage handler
tool == <<nextClientId, issued, op, del, stats, call, mi, sweep>>

vars == <<now, clients, installed, modelsCache, limiters, limObj, rateBuckets,
          usageLogs, nextLogId, req, rl, tool>>

----------------------------------------------------------------------------
(* Bounds of the model *)

MaxReq == 2          \* requests through the whole pipeline (Spec)
MaxRateReq == 3      \* requests through the middleware chain (RateSpec)
MaxTime == 2         \* the clock stops here
TicksPerMinute == 2  \* the resolution of the clock
MaxClientId == 6     \* the clients table takes ids up to this one
MaxExecTime == 5     \* the clock of the specification of Execute stops here

\* The models of the four requests of the end-to-end scenario (ScenarioSpec)
ScenarioModels == <<"m1", "m2", "m1", "m1">>

Max(a, b) == IF a > b THEN a ELSE b
Req == 1..Max(Max(MaxReq, MaxRateReq), Len(ScenarioModels))
Ticks == 0..Max(MaxTime, MaxExecTime)

----------------------------------------------------------------------------
(* Small helpers *)

Min(a, b) == IF a < b THEN a ELSE b

RECURSIVE SumSet(_, _)
SumSet(f, S) == IF S = {} THEN 0
                ELSE LET x == CHOOSE y \in S : TRUE IN f[x] + SumSet(f, S \ {x})

\* x is an element of the list
InList(list, x) == \E i \in 1..Len(list) : list[i] = x

----------------------------------------------------------------------------
(* Credential codec (package auth) *)

APIKeyPrefix == "aics_"

\* ValidateAPIKeyFormat: at least as long as the prefix and starting with it
\* A shape check that lets every candidate through (a variant of ValidateAPIKeyFormat)
ValidateAPIKeyFormatAny(key) == TRUE

ValidateAPIKeyFormat(key) ==
    IF Len(key) < Len(APIKeyPrefix) THEN FALSE
    ELSE SubSeq(key, 1, Len(APIKeyPrefix)) = APIKeyPrefix

\* A digest that depends on the first six characters of a key only (a variant of
\* HashAPIKey)
HashAPIKeyPrefix(key) == "sha256(" \o SubSeq(key, 1, Min(Len(key), 6)) \o ")"

\* HashAPIKey: the digest of a key, a collision-free tagging of it here
HashAPIKey(key) == "sha256(" \o key \o ")"

\* strings.SplitN(s, " ", 2): cut at the first space, if there is one
SplitN2(s) ==
    LET sp == {i \in 1..Len(s) : SubSeq(s, i, i) = " "} IN
    IF sp = {} THEN <<s>>
    ELSE LET i == CHOOSE j \in sp : \A k \in sp : j <= k
         IN <<SubSeq(s, 1, i - 1), SubSeq(s, i + 1, Len(s))>>

----------------------------------------------------------------------------
(* The client store *)

ClientIds == 1..MaxClientId
NoExpiry == -1
Providers == {"copilot", "cursor"}

NilClient == [id |-> 0, apiKeyHash |-> "", provider |-> "", allowedModels |-> <<>>,
              defaultModel |-> "", rateLimitPerMinute |-> 0, expiresAt |-> NoExpiry,
              isActive |-> FALSE]

\* The rows the operator tool has created before the server starts
InitClients ==
    (1 :> [id |-> 1, apiKeyHash |-> HashAPIKey("aics_k1"), provider |-> "copilot",
           allowedModels |-> <<"m1">>, defaultModel |-> "",
           rateLimitPerMinute |-> 2, expiresAt |-> NoExpiry, isActive |-> TRUE]) @@
    (2 :> [id |-> 2, apiKeyHash |-> HashAPIKey("aics_k2"), provider |-> "copilot",
           allowedModels |-> <<"*">>, defaultModel |-> "m2",
           rateLimitPerMinute |-> 0, expiresAt |-> NoExpiry, isActive |-> TRUE]) @@
    (3 :> [id |-> 3, apiKeyHash |-> HashAPIKey("aics_k3"), provider |-> "cursor",
           allowedModels |-> <<"m2", "*">>, defaultModel |-> "",
           rateLimitPerMinute |-> 1, expiresAt |-> 0, isActive |-> TRUE]) @@
    (4 :> [id |-> 4, apiKeyHash |-> HashAPIKey("aics_k4"), provider |-> "copilot",
           allowedModels |-> <<"*">>, defaultModel |-> "m1",
           rateLimitPerMinute |-> 1, expiresAt |-> NoExpiry, isActive |-> FALSE]) @@
    (5 :> [id |-> 5, apiKeyHash |-> HashAPIKey("aics_k5"), provider |-> "copilot",
           allowedModels |-> <<"m2", "*">>, defaultModel |-> "m2",
           rateLimitPerMinute |-> 1, expiresAt |-> NoExpiry, isActive |-> TRUE])

\* GetClientByAPIKeyHash: the row with this fingerprint, NilClient for sql.ErrNoRows
GetClientByAPIKeyHash(keyHash) ==
    LET hit == {c \in DOMAIN clients : clients[c].apiKeyHash = keyHash} IN
    IF hit = {} THEN NilClient ELSE clients[CHOOSE c \in hit : TRUE]

\* An allow-list check that passes whatever a non-empty list is asked (a variant
\* of IsModelAllowed)
IsModelAllowedNonEmpty(client, model) == Len(client.allowedModels) > 0

\* An allow-list check that lets every model through (a variant of IsModelAllowed)
IsModelAllowedAny(client, model) == TRUE

\* IsModelAllowed: the model, or the wildcard, is an element of the allow-list
IsModelAllowed(client, model) ==
    \E i \in 1..Len(client.allowedModels) :
        client.allowedModels[i] = model \/ client.allowedModels[i] = "*"

\* CreateClient: the INSERT goes through unless api_key_hash, which is UNIQUE, is taken
CanInsertClient(row) ==
    \A c \in DOMAIN clients : clients[c].apiKeyHash # row.apiKeyHash

\* The clients table after the INSERT: the row gets the next id of the sequence
InsertClient(row) == clients @@ (nextClientId :> [row EXCEPT !.id = nextClientId])

\* GetUsageLogs(clientID, limit, offset) with a limit that takes all: the client's
\* rows, newest first
GetUsageLogs(clientID) ==
    LET own == SelectSeq(usageLogs, LAMBDA row : row.clientID = clientID)
    IN [i \in 1..Len(own) |-> own[Len(own) + 1 - i]]

\* A deletion without its WHERE clause (a variant of DeleteUsageLogsByClient)
DeleteUsageLogsAll(clientID) == <<>>

\* A deletion that leaves the table as it is (a variant of DeleteUsageLogsByClient)
KeepUsageLogs(clientID) == usageLogs

\* DeleteUsageLogsByClient: DELETE FROM usage_logs WHERE client_id = ?
DeleteUsageLogsByClient(clientID) ==
    SelectSeq(usageLogs, LAMBDA row : row.clientID # clientID)

\* ON DELETE CASCADE of rate_limit_buckets.client_id
CascadeBuckets(clientID) ==
    [k \in {j \in DOMAIN rateBuckets : j[1] # clientID} |-> rateBuckets[k]]

\* DeleteClient: DELETE FROM clients WHERE id = ?
DeleteClient(clientID) ==
    [c \in DOMAIN clients \ {clientID} |-> clients[c]]

----------------------------------------------------------------------------
(* golang.org/x/time/rate as RateLimitMiddleware uses it *)

\* A limiter created with a burst of one more than the limit (a variant of
\* NewLimiter)
NewLimiterOversized(ratePerMinute, t) ==
    [tokens |-> (ratePerMinute + 1) * TicksPerMinute, last |-> t,
     burst |-> ratePerMinute + 1, perMinute |-> ratePerMinute]

\* rate.NewLimiter(rate.Limit(ratePerMinute / 60.0), ratePerMinute): a full bucket
NewLimiter(ratePerMinute, t) ==
    [tokens |-> ratePerMinute * TicksPerMinute, last |-> t,
     burst |-> ratePerMinute, perMinute |-> ratePerMinute]

\* A bucket that is found full whenever it is looked at, as if every token taken had
\* been given back (a variant of TokensAt)
TokensAtRefunded(l, t) == l.burst * TicksPerMinute

\* The bucket's content at time t: what it held, plus the refill since, capped at burst
TokensAt(l, t) ==
    Min(l.burst * TicksPerMinute, l.tokens + (t - l.last) * l.perMinute)

\* An Allow() that also says no once a row of the durable ledger has reached the
\* burst (a variant of AllowOk)
AllowOkLedger(l, t) ==
    /\ TokensAt(l, t) >= TicksPerMinute
    /\ \A k \in DOMAIN rateBuckets : rateBuckets[k] < l.burst

\* limiter.Allow(): TRUE iff a whole token is there at time t
AllowOk(l, t) == TokensAt(l, t) >= TicksPerMinute

\* A limiter whose Allow() reads the bucket and does not write it back, as two
\* unsynchronised callers would leave it (a variant of AllowNext)
AllowNextNoConsume(l, t) == l

\* The limiter after Allow() at time t: one token less when it said yes
AllowNext(l, t) ==
    IF AllowOk(l, t)
    THEN [l EXCEPT !.tokens = TokensAt(l, t) - TicksPerMinute, !.last = t]
    ELSE l

\* time.Now().Truncate(time.Minute), as the tick that starts the minute
TruncateMinute(t) == t - (t % TicksPerMinute)

\* An upsert that writes 1 over the row it finds: a lost update (a variant of
\* UpsertBucket)
UpsertBucketLost(tbl, clientID, windowStart) ==
    (<<clientID, windowStart>> :> 1) @@ tbl

\* INSERT ... ON CONFLICT(client_id, window_start) DO UPDATE SET request_count + 1
\* An upsert whose conflict clause counts down (a variant of UpsertBucket)
UpsertBucketDown(tbl, clientID, windowStart) ==
    LET k == <<clientID, windowStart>> IN
    IF k \in DOMAIN tbl THEN [tbl EXCEPT ![k] = @ - 1] ELSE tbl @@ (k :> 1)

UpsertBucket(tbl, clientID, windowStart) ==
    LET k == <<clientID, windowStart>> IN
    IF k \in DOMAIN tbl THEN [tbl EXCEPT ![k] = @ + 1] ELSE tbl @@ (k :> 1)

----------------------------------------------------------------------------
(* Providers (package agents, copilot, cursor) *)

\* agents.EstimateTokens: len(text) / 4
EstimateTokens(text) == Len(text) \div 4

\* What <binary> -h can be parsed into by fetchModelsFromCLI; <<>> is a failed parse
FetchResults(p) ==
    IF p \notin Providers \/ ~installed[p] THEN {<<>>}
    ELSE IF p = "copilot" THEN {<<>>, <<"m1", "m2">>} ELSE {<<>>, <<"m2">>}

\* copilot.GetSupportedModels falls back to a hardcoded list, cursor's returns none
FallbackModels(p) == IF p = "copilot" THEN <<"claude-sonnet-4.5", "claude-haiku-4.5">> ELSE <<>>

\* GetModelsInfo: the cache after the call, given what a fetch would return
CacheAfter(p, fetched) ==
    IF modelsCache[p].cached THEN modelsCache[p]
    ELSE IF Len(fetched) > 0 THEN [cached |-> TRUE, models |-> fetched]
    ELSE modelsCache[p]

\* GetSupportedModels, on the cache as GetModelsInfo left it
GetSupportedModels(p, cache) ==
    IF Len(cache.models) = 0 THEN FallbackModels(p) ELSE cache.models

\* What the CLI process prints when it exits 0
Outputs == {"pong pong"}

\* No ExecuteResponse: what Execute returns beside an error
NoResult == [ok |-> FALSE, content |-> "", model |-> "", promptTokens |-> 0,
             completionTokens |-> 0, totalTokens |-> 0]

\* provider.Execute: the responses it can return; ok = FALSE is the returned error
\* (spawn failure, non-zero exit, timeout).  copilot echoes the requested model,
\* cursor reports the model field of the tool's JSON, empty when there is none.
ExecuteResults(p, prompt, model) ==
    {NoResult}
    \cup
    {[ok |-> TRUE, content |-> out, model |-> m,
      promptTokens |-> EstimateTokens(prompt),
      completionTokens |-> EstimateTokens(out),
      totalTokens |-> EstimateTokens(prompt) + EstimateTokens(out)]
       : out \in Outputs, m \in IF p = "copilot" THEN {model} ELSE {"", model}}

----------------------------------------------------------------------------
(* Chat handler helpers *)

\* A prompt builder that does not look at the role
RECURSIVE messagesToPromptAllRoles(_)
messagesToPromptAllRoles(messages) ==
    IF Len(messages) = 0 THEN ""
    ELSE messagesToPromptAllRoles(SubSeq(messages, 1, Len(messages) - 1))
             \o messages[Len(messages)].content \o "\n"

\* messagesToPrompt: the contents of the user messages, each followed by a newline
RECURSIVE messagesToPrompt(_)
messagesToPrompt(messages) ==
    IF Len(messages) = 0 THEN ""
    ELSE LET msg == messages[Len(messages)]
             rest == messagesToPrompt(SubSeq(messages, 1, Len(messages) - 1))
         IN IF msg.role = "user" THEN rest \o msg.content \o "\n" ELSE rest

\* The models of the price table
PriceTable == {"gpt-5", "gpt-4o", "claude-sonnet-4.5", "claude-sonnet-3.5", "gpt-4",
               "o1-preview", "o1-mini"}

\* The default price per token, in units of 0.00001 dollar (0.01 per 1000 tokens)
DefaultRate == 1

\* A cost estimate that bills every model outside the price table as gpt-4
calculateCostNoDefault(model, tokens) ==
    tokens * (CASE model = "gpt-5" -> 5
                [] model = "o1-preview" -> 10
                [] model = "o1-mini" -> 5
                [] model = "claude-sonnet-3.5" -> 2
                [] OTHER -> 3)

\* calculateCost, in units of 0.00001 dollar: tokens / 1000 * pricePerThousand
calculateCost(model, tokens) ==
    tokens * (CASE model = "gpt-5" -> 5
                [] model = "gpt-4o" -> 3
                [] model = "claude-sonnet-4.5" -> 3
                [] model = "claude-sonnet-3.5" -> 2
                [] model = "gpt-4" -> 3
                [] model = "o1-preview" -> 10
                [] model = "o1-mini" -> 5
                [] OTHER -> DefaultRate)

\* The request bodies a caller may send; valid = FALSE does not decode
Messages == <<[role |-> "system", content |-> "be brief"],
              [role |-> "user", content |-> "ping"]>>

NoBody == [valid |-> FALSE, provider |-> "", model |-> "", messages |-> <<>>]

Bodies ==
    {NoBody}
    \cup
    {[valid |-> TRUE, provider |-> "", model |-> m, messages |-> Messages]
       : m \in {"", "m1", "m2"}}
    \cup
    {[valid |-> TRUE, provider |-> "cursor", model |-> "m1", messages |-> Messages]}

\* The Authorization headers a caller may send
Headers == {"", "Basic aics_k1", "Bearer sk-1", "Bearer aics_zz",
            "Bearer aics_k1", "Bearer aics_k2", "Bearer aics_k3", "Bearer aics_k4"}

----------------------------------------------------------------------------
(* The state of one request *)

NoResp == [id |-> "", provider |-> "", model |-> "", content |-> "",
           promptTokens |-> 0, completionTokens |-> 0, totalTokens |-> 0, cost |-> 0]

IdleReq == [pc |-> "idle",          \* where its goroutine stands
            hdr |-> "",             \* its Authorization header
            body |-> NoBody,        \* its body, once the handler has read it
            client |-> NilClient,   \* the client in its context
            lookups |-> 0,          \* history: the GetClientByAPIKeyHash calls made for it
            lim |-> 0,              \* the limiter getLimiter returned
            admitted |-> FALSE,     \* limiter.Allow() returned true
            counted |-> "none",     \* IncrementRateLimitBucket: none, ok, fail
            provider |-> "",        \* req.Provider
            model |-> "",           \* req.Model
            prompt |-> "",
            execs |-> 0,            \* history: calls of provider.Execute
            proc |-> "none",        \* the Execute call: none, pending, spawned,
                                    \* completed, timedOut, spawnFailed
            deadline |-> 0,         \* the deadline of the call's context
            cancelled |-> FALSE,    \* the context of the inbound request is cancelled
            cancelAt |-> 0,         \* when it was cancelled
            exitOk |-> FALSE,       \* the process exited with status 0
            spawns |-> 0,           \* history: processes started
            result |-> NoResult,    \* what Execute returned
            inserts |-> 0,          \* history: calls of CreateUsageLog
            logged |-> "none",      \* CreateUsageLog: none, ok, fail
            status |-> 0,           \* the HTTP status written, 0 before
            error |-> "",           \* the error message written
            resp |-> NoResp]        \* the ChatCompletionResponse written

InFlight == {r \in Req : req[r].pc \notin {"idle", "done"}}

\* An error response without the return that follows it: the request goes on to
\* the dispatch (a variant of Reject)
RejectFallsThrough(r, status, message) ==
    [req EXCEPT ![r].pc = "execute", ![r].status = status, ![r].error = message]

\* respondJSON / respondError with an error body: the request ends
Reject(r, status, message) ==
    [req EXCEPT ![r].pc = "done", ![r].status = status, ![r].error = message]

NoTime == NoExpiry

\* No GetUsageStats call yet
NoStats == [pc |-> "idle", clientID |-> 0, startTime |-> NoTime, endTime |-> NoTime,
            totalRequests |-> 0, totalTokens |-> 0, totalCost |-> 0,
            byProvider |-> <<>>, byModel |-> <<>>, status |-> 0]

\* Before the first operation of an operator
NoOp == [name |-> "none", models |-> <<>>, id |-> 0, error |-> ""]

----------------------------------------------------------------------------
(* Init *)

\* The state after the start of the server on a machine where the binaries of inst
\* resolve
\* No helper call in progress
NoCall == [fn |-> "", args |-> <<>>, done |-> FALSE, out |-> <<>>]

\* cleanupLimiters: a ticker of 5 minutes, rows older than 1 hour
SweepMinutes == 5
RetentionMinutes == 60

MaxCallers == 2
MaxCalls == 2
Callers == 1..MaxCallers

\* A goroutine that is not in GetModelsInfo
IdleCaller == [pc |-> "idle", p |-> "", after |-> FALSE, ran |-> FALSE,
               fetched |-> <<>>, out |-> <<>>, calls |-> 0]

\* No GetModelsInfo call yet: the mutexes are free (lock: the caller holding the
\* write lock, 0 for none)
NoModelsInfo ==
    [lock |-> [p \in Providers |-> 0],
     caller |-> [k \in Callers |-> IdleCaller],
     discoveries |-> [p \in Providers |-> 0],
     commits |-> [p \in Providers |-> 0]]

InitCall(inst, first) ==
    /\ call = first
    /\ mi = NoModelsInfo
    /\ sweep = [next |-> SweepMinutes * TicksPerMinute]
    /\ now = 0
    /\ clients = InitClients
    /\ installed = inst
    /\ modelsCache = [p \in Providers |-> [cached |-> FALSE, models |-> <<>>]]
    /\ limiters = [c \in ClientIds |-> 0]
    /\ limObj = <<>>
    /\ rateBuckets = <<>>
    /\ usageLogs = <<>>
    /\ nextLogId = 1
    /\ req = [r \in Req |-> IdleReq]
    /\ rl = [c \in ClientIds |-> [t \in Ticks |-> [avail |-> -1, calls |-> 0, admits |-> 0]]]
    /\ nextClientId = Cardinality(DOMAIN InitClients) + 1
    /\ issued = {}
    /\ op = NoOp
    /\ del = [pc |-> "idle", id |-> 0]
    /\ stats = NoStats

InitWith(inst) == InitCall(inst, NoCall)

\* The machine of the scenarios has the copilot binary and not the cursor one
Init == InitWith([p \in Providers |-> p = "copilot"])

----------------------------------------------------------------------------
(* Actions *)

\* The clock advances by one tick, up to last
Pass(last) ==
    /\ now < last
    /\ now' = now + 1
    /\ rl' = [c \in ClientIds |->
                IF limiters[c] = 0 THEN rl[c]
                ELSE [rl[c] EXCEPT ![now + 1].avail =
                                       TokensAt(limObj[limiters[c]], now + 1)]]
    /\ UNCHANGED <<tool, clients, installed, modelsCache, limiters, limObj, rateBuckets,
                   usageLogs, nextLogId, req>>

\* Time passes
Tick == Pass(MaxTime)

\* A request to /v1/chat/completions arrives, with a header of hs
\* (requests are numbered as they arrive)
Arrive(r, hs) ==
    /\ req[r].pc = "idle"
    /\ IF r = 1 THEN TRUE ELSE req[r - 1].pc # "idle"
    /\ \E h \in hs :
         req' = [req EXCEPT ![r].pc = "auth", ![r].hdr = h]
    /\ UNCHANGED <<tool, now, clients, installed, modelsCache, limiters, limObj, rateBuckets,
                   usageLogs, nextLogId, rl>>

\* An Authenticate without the is_active check (a variant of AuthOutcome)
AuthOutcomeNoActive(h, dbOk) ==
    LET parts == SplitN2(h)
        early(st, msg) == [status |-> st, error |-> msg, client |-> NilClient,
                           lookups |-> 0]
        fail(st, msg) == [status |-> st, error |-> msg, client |-> NilClient,
                          lookups |-> 1]
    IN
    IF h = "" THEN early(401, "missing authorization header")
    ELSE IF Len(parts) # 2 \/ parts[1] # "Bearer"
    THEN early(401, "invalid authorization header format")
    ELSE IF ~ValidateAPIKeyFormat(parts[2]) THEN early(401, "invalid API key format")
    ELSE IF ~dbOk THEN fail(500, "failed to validate API key")
    ELSE LET client == GetClientByAPIKeyHash(HashAPIKey(parts[2])) IN
         IF client = NilClient THEN fail(401, "invalid API key")
         ELSE IF client.expiresAt # NoExpiry /\ client.expiresAt < now
         THEN fail(403, "API key has expired")
         ELSE [status |-> 0, error |-> "", client |-> client, lookups |-> 1]

\* AuthMiddleware.Authenticate: what it answers to a header; dbOk is whether the
\* store lookup succeeds.  status 0: the client goes into the context and next runs.
AuthOutcome(h, dbOk) ==
    LET parts == SplitN2(h)
        early(st, msg) == [status |-> st, error |-> msg, client |-> NilClient,
                           lookups |-> 0]
        fail(st, msg) == [status |-> st, error |-> msg, client |-> NilClient,
                          lookups |-> 1]
    IN
    IF h = "" THEN early(401, "missing authorization header")
    ELSE IF Len(parts) # 2 \/ parts[1] # "Bearer"
    THEN early(401, "invalid authorization header format")
    ELSE IF ~ValidateAPIKeyFormat(parts[2]) THEN early(401, "invalid API key format")
    ELSE IF ~dbOk THEN fail(500, "failed to validate API key")
    ELSE LET client == GetClientByAPIKeyHash(HashAPIKey(parts[2])) IN
         IF client = NilClient THEN fail(401, "invalid API key")
         ELSE IF ~client.isActive THEN fail(403, "API key is inactive")
         ELSE IF client.expiresAt # NoExpiry /\ client.expiresAt < now
         THEN fail(403, "API key has expired")
         ELSE [status |-> 0, error |-> "", client |-> client, lookups |-> 1]

Authenticate(r) ==
    /\ req[r].pc = "auth"
    /\ \E dbOk \in BOOLEAN :
         LET o == AuthOutcome(req[r].hdr, dbOk) IN
         req' = IF o.status # 0
                THEN [Reject(r, o.status, o.error) EXCEPT ![r].lookups = o.lookups]
                ELSE [req EXCEPT ![r].pc = "getLimiter", ![r].client = o.client,
                                 ![r].lookups = o.lookups]
    /\ UNCHANGED <<tool, now, clients, installed, modelsCache, limiters, limObj, rateBuckets,
                   usageLogs, nextLogId, rl>>

\* A map with one entry for all clients (a variant of LimiterKey)
LimiterKeyShared(clientID) == 1

\* m.limiters[clientID]: the key of a client's entry in the map
LimiterKey(clientID) == clientID

\* getLimiter, under the read lock: the limiter in the map, if there is one
GetLimiterRead(r) ==
    /\ req[r].pc = "getLimiter"
    /\ req' = IF req[r].client = NilClient
              THEN Reject(r, 500, "client not found in context")
              ELSE IF limiters[LimiterKey(req[r].client.id)] # 0
              THEN [req EXCEPT ![r].pc = "allow",
                               ![r].lim = limiters[LimiterKey(req[r].client.id)]]
              ELSE [req EXCEPT ![r].pc = "lockLimiter"]
    /\ UNCHANGED <<tool, now, clients, installed, modelsCache, limiters, limObj, rateBuckets,
                   usageLogs, nextLogId, rl>>

\* A getLimiter that creates without looking at the map again
MustCreateAlways(clientID) == TRUE

\* A getLimiter that makes a new limiter when the one in the map was made for another
\* rate than the one the store holds now (a variant of MustCreate)
MustCreateOnChange(clientID) ==
    \/ limiters[LimiterKey(clientID)] = 0
    \/ limObj[limiters[LimiterKey(clientID)]].burst # clients[clientID].rateLimitPerMinute

\* getLimiter, under the write lock: TRUE iff a limiter has to be created
\* (the double check after acquiring the lock)
MustCreate(clientID) == limiters[LimiterKey(clientID)] = 0

GetLimiterWrite(r) ==
    LET c == req[r].client IN
    /\ req[r].pc = "lockLimiter"
    /\ IF MustCreate(c.id)
       THEN /\ limObj' = Append(limObj, NewLimiter(c.rateLimitPerMinute, now))
            /\ limiters' = [limiters EXCEPT ![LimiterKey(c.id)] = Len(limObj) + 1]
            /\ req' = [req EXCEPT ![r].pc = "allow", ![r].lim = Len(limObj) + 1]
            /\ rl' = [rl EXCEPT ![c.id][now].avail =
                                    NewLimiter(c.rateLimitPerMinute, now).tokens]
       ELSE /\ req' = [req EXCEPT ![r].pc = "allow", ![r].lim = limiters[LimiterKey(c.id)]]
            /\ UNCHANGED <<limiters, limObj, rl>>
    /\ UNCHANGED <<tool, now, clients, installed, modelsCache, rateBuckets,
                   usageLogs, nextLogId>>

\* limiter.Allow(), under the limiter's own mutex; 429 when it says no
Allow(r) ==
    LET l == limObj[req[r].lim]
        c == req[r].client.id
    IN
    /\ req[r].pc = "allow"
    /\ limObj' = [limObj EXCEPT ![req[r].lim] = AllowNext(l, now)]
    /\ IF AllowOk(l, now)
       THEN /\ req' = [req EXCEPT ![r].pc = "increment", ![r].admitted = TRUE]
            /\ rl' = [rl EXCEPT ![c][now].calls = @ + 1, ![c][now].admits = @ + 1]
       ELSE /\ req' = Reject(r, 429, "rate limit exceeded")
            /\ rl' = [rl EXCEPT ![c][now].calls = @ + 1]
    /\ UNCHANGED <<tool, now, clients, installed, modelsCache, limiters, rateBuckets,
                   usageLogs, nextLogId>>

\* IncrementRateLimitBucket for the minute of time.Now(); its error is dropped
IncrementRateLimitBucket(r) ==
    /\ req[r].pc = "increment"
    /\ \E dbOk \in BOOLEAN :
         /\ rateBuckets' = IF dbOk
                           THEN UpsertBucket(rateBuckets, req[r].client.id,
                                             TruncateMinute(now))
                           ELSE rateBuckets
         /\ req' = [req EXCEPT ![r].pc = "handler",
                               ![r].counted = IF dbOk THEN "ok" ELSE "fail"]
    /\ UNCHANGED <<tool, now, clients, installed, modelsCache, limiters, limObj,
                   usageLogs, nextLogId, rl>>

\* A resolution that prefers the client's default to the model of the request
\* (a variant of ResolveModel)
ResolveModelDefaultFirst(bodyModel, defaultModel, models) ==
    IF defaultModel # "" THEN defaultModel
    ELSE IF bodyModel # "" THEN bodyModel
    ELSE IF Len(models) > 0 THEN models[1] ELSE ""

\* req.Model after the defaulting: the model of the request, else the client's
\* default, else the first model of the provider, else none
ResolveModel(bodyModel, defaultModel, models) ==
    IF bodyModel # "" THEN bodyModel
    ELSE IF defaultModel # "" THEN defaultModel
    ELSE IF Len(models) > 0 THEN models[1] ELSE ""

\* A provider that says it is available whatever is installed (a variant of
\* IsAvailable)
IsAvailableAlways(p) == TRUE

\* provider.IsAvailable(): exec.LookPath finds the binary
IsAvailable(p) == installed[p]

\* A handler that lets the body choose the provider (a variant of BoundProvider)
BodyProvider(client, body) ==
    IF body.provider # "" THEN body.provider ELSE client.provider

\* req.Provider = client.Provider: the provider of the body is overwritten
BoundProvider(client, body) == client.provider

\* HandleChatCompletion up to the call of Execute: what it decides for a body, given
\* what a model discovery would fetch.  status 0: the request is dispatched.
HandlerProviders == {"copilot", "cursor"}

HandlerOutcome(client, body, fetched) ==
    LET provider == BoundProvider(client, body)
        discover == body.model = "" /\ client.defaultModel = ""
                    /\ provider \in HandlerProviders
        before   == IF provider \in Providers THEN modelsCache[provider]
                    ELSE [cached |-> FALSE, models |-> <<>>]
        cache    == IF discover THEN CacheAfter(provider, fetched) ELSE before
        models   == IF discover THEN GetSupportedModels(provider, cache) ELSE <<>>
        model    == ResolveModel(body.model, client.defaultModel, models)
        out(st, msg) == [status |-> st, error |-> msg, provider |-> provider,
                         model |-> model, cache |-> cache,
                         prompt |-> messagesToPrompt(body.messages)]
    IN
    IF client = NilClient THEN out(500, "client not found in context")
    ELSE IF ~body.valid
    THEN [status |-> 400, error |-> "invalid request body", provider |-> "",
          model |-> "", cache |-> before, prompt |-> ""]
    ELSE IF model = "" THEN out(400, "model is required (no default configured)")
    ELSE IF provider \notin HandlerProviders THEN out(400, "unknown provider")
    ELSE IF ~IsAvailable(provider) THEN out(503, "provider is not available")
    ELSE IF ~IsModelAllowed(client, model) /\ ~IsModelAllowed(client, "*")
    THEN out(403, "model is not allowed for this client")
    ELSE out(0, "")

Handle(r, bs) ==
    /\ req[r].pc = "handler"
    /\ \E body \in bs, fetched \in FetchResults(req[r].client.provider) :
         LET o == HandlerOutcome(req[r].client, body, fetched) IN
         /\ modelsCache' = IF req[r].client.provider \in Providers
                           THEN [modelsCache EXCEPT ![req[r].client.provider] = o.cache]
                           ELSE modelsCache
         /\ req' = IF o.status # 0
                   THEN [Reject(r, o.status, o.error) EXCEPT ![r].body = body,
                            ![r].provider = o.provider, ![r].model = o.model]
                   ELSE [req EXCEPT ![r].pc = "execute", ![r].body = body,
                                    ![r].provider = o.provider,
                                    ![r].model = o.model, ![r].prompt = o.prompt]
    /\ UNCHANGED <<tool, now, clients, installed, limiters, limObj, rateBuckets,
                   usageLogs, nextLogId, rl>>

\* provider.Execute as one step: the external process runs and ends
Execute(r) ==
    /\ req[r].pc = "execute" /\ req[r].proc = "none"
    /\ \E res \in ExecuteResults(req[r].provider, req[r].prompt, req[r].model) :
         req' = [req EXCEPT ![r].pc = "log", ![r].execs = @ + 1, ![r].result = res]
    /\ UNCHANGED <<tool, now, clients, installed, modelsCache, limiters, limObj, rateBuckets,
                   usageLogs, nextLogId, rl>>

\* The timeouts of the configuration, in ticks: copilot has none, cursor 30 s
ConfiguredTimeout == [p \in Providers |-> IF p = "copilot" THEN 0 ELSE 1]

\* 120 * time.Second
DefaultTimeout == 2 * TicksPerMinute

\* NewProvider: the timeout of the provider, the default when none is configured
ProviderTimeout(p) ==
    IF ConfiguredTimeout[p] = 0 THEN DefaultTimeout ELSE ConfiguredTimeout[p]

\* Execute: the timeout of a call, the one of the request if it has one
CallTimeout(p, reqTimeout) == IF reqTimeout > 0 THEN reqTimeout ELSE ProviderTimeout(p)

\* cliReq.Timeout: the handler does not set it
HandlerTimeout == 0

\* A command that is not bound to a context (a variant of ContextDone)
ContextNeverDone(q, t) == FALSE

\* ctx.Done() of the call's context at time t: the deadline has come, or the context
\* of the inbound request, its parent, is cancelled
ContextDone(q, t) == q.cancelled \/ t >= q.deadline

\* Execute is called: the context with the deadline is made, the command is built
ExecuteCall(r) ==
    /\ req[r].pc = "execute" /\ req[r].proc = "none"
    /\ req' = [req EXCEPT ![r].proc = "pending", ![r].execs = @ + 1,
                          ![r].deadline =
                              now + CallTimeout(req[r].provider, HandlerTimeout)]
    /\ UNCHANGED <<tool, now, clients, installed, modelsCache, limiters, limObj,
                   rateBuckets, usageLogs, nextLogId, rl>>

\* cmd.Start: no process is started under a context that is done, and the start of
\* one may fail
Start(r) ==
    /\ req[r].pc = "execute" /\ req[r].proc = "pending"
    /\ \E ok \in BOOLEAN :
         req' = IF ok /\ ~ContextDone(req[r], now)
                THEN [req EXCEPT ![r].proc = "spawned", ![r].spawns = @ + 1]
                ELSE [req EXCEPT ![r].proc = "spawnFailed"]
    /\ UNCHANGED <<tool, now, clients, installed, modelsCache, limiters, limObj,
                   rateBuckets, usageLogs, nextLogId, rl>>

\* The process ends by itself, with status 0 or another
Exit(r) ==
    /\ req[r].pc = "execute" /\ req[r].proc = "spawned"
    /\ \E ok \in BOOLEAN :
         req' = [req EXCEPT ![r].proc = "completed", ![r].exitOk = ok]
    /\ UNCHANGED <<tool, now, clients, installed, modelsCache, limiters, limObj,
                   rateBuckets, usageLogs, nextLogId, rl>>

\* exec.CommandContext: the process is killed when the context is done
Kill(r) ==
    /\ req[r].pc = "execute" /\ req[r].proc = "spawned"
    /\ ContextDone(req[r], now)
    /\ req' = [req EXCEPT ![r].proc = "timedOut"]
    /\ UNCHANGED <<tool, now, clients, installed, modelsCache, limiters, limObj,
                   rateBuckets, usageLogs, nextLogId, rl>>

\* The caller goes away while its request is in Execute: r.Context() is cancelled
Cancel(r) ==
    /\ req[r].pc = "execute" /\ ~req[r].cancelled
    /\ req' = [req EXCEPT ![r].cancelled = TRUE, ![r].cancelAt = now]
    /\ UNCHANGED <<tool, now, clients, installed, modelsCache, limiters, limObj,
                   rateBuckets, usageLogs, nextLogId, rl>>

\* A handler that calls Execute again after a failure (a variant of Returned)
ReturnedRetry(q, res) ==
    IF res.ok THEN [q EXCEPT !.pc = "log", !.result = res]
    ELSE [q EXCEPT !.proc = "none"]

\* The request after Execute has returned res to the handler
Returned(q, res) == [q EXCEPT !.pc = "log", !.result = res]

\* Execute returns: the response made of the output of a process that ended with
\* status 0, an error in every other case
ExecuteReturn(r) ==
    /\ req[r].pc = "execute"
    /\ req[r].proc \in {"completed", "timedOut", "spawnFailed"}
    /\ \E res \in ExecuteResults(req[r].provider, req[r].prompt, req[r].model) :
         /\ res.ok <=> (req[r].proc = "completed" /\ req[r].exitOk)
         /\ req' = [req EXCEPT ![r] = Returned(req[r], res)]
    /\ UNCHANGED <<tool, now, clients, installed, modelsCache, limiters, limObj,
                   rateBuckets, usageLogs, nextLogId, rl>>

\* Time passes during a call of Execute, unless the kill of its process is due (the
\* other steps of a request take no time)
ExecTick ==
    /\ \E r \in Req : req[r].proc \in {"pending", "spawned"}
    /\ \A r \in Req : req[r].proc = "spawned" => ~ContextDone(req[r], now)
    /\ Pass(MaxExecTime)

\* The models.UsageLog the handler builds after Execute
\* An entry that counts the tokens of the prompt of a failed execution too (a variant
\* of UsageLogFor)
UsageLogWithPromptTokens(q, t) ==
    [id |-> 0, clientID |-> q.client.id, timestamp |-> t, provider |-> q.provider,
     model |-> IF q.result.ok THEN q.result.model ELSE q.model, prompt |-> q.prompt,
     promptTokens |-> EstimateTokens(q.prompt),
     completionTokens |-> q.result.completionTokens,
     totalTokens |-> EstimateTokens(q.prompt) + q.result.completionTokens,
     cost |-> calculateCost(q.model, EstimateTokens(q.prompt) + q.result.completionTokens),
     responseStatus |-> IF q.result.ok THEN 200 ELSE 500,
     errorMessage |-> IF q.result.ok THEN "" ELSE "CLI execution failed"]

UsageLogFor(q, t) ==
    IF ~q.result.ok
    THEN [id |-> 0, clientID |-> q.client.id, timestamp |-> t, provider |-> q.provider,
          model |-> q.model, prompt |-> q.prompt, promptTokens |-> 0,
          completionTokens |-> 0, totalTokens |-> 0, cost |-> 0,
          responseStatus |-> 500, errorMessage |-> "CLI execution failed"]
    ELSE [id |-> 0, clientID |-> q.client.id, timestamp |-> t, provider |-> q.provider,
          model |-> q.result.model, prompt |-> q.prompt,
          promptTokens |-> q.result.promptTokens,
          completionTokens |-> q.result.completionTokens,
          totalTokens |-> q.result.totalTokens,
          cost |-> calculateCost(q.model, q.result.totalTokens),
          responseStatus |-> 200, errorMessage |-> ""]

\* A handler that answers 500 when the insert fails (a variant of StatusAfterLog)
StatusMasked(q, dbOk) == IF q.result.ok /\ dbOk THEN 200 ELSE 500

\* The status the handler answers with after the insert, dbOk being its success
StatusAfterLog(q, dbOk) == IF q.result.ok THEN 200 ELSE 500

\* The ChatCompletionResponse written on success; logID is usageLog.ID after the insert
ResponseFor(q, logID) ==
    IF ~q.result.ok THEN NoResp
    ELSE [id |-> "chatcmpl-" \o ToString(logID), provider |-> q.provider,
          model |-> q.result.model, content |-> q.result.content,
          promptTokens |-> q.result.promptTokens,
          completionTokens |-> q.result.completionTokens,
          totalTokens |-> q.result.totalTokens,
          cost |-> calculateCost(q.model, q.result.totalTokens)]

\* A handler that logs successful executions only (a variant of InsertsAfterExecute)
InsertsOnSuccessOnly(q) == IF q.result.ok THEN 1 ELSE 0

\* How many times the handler calls CreateUsageLog after Execute returned
InsertsAfterExecute(q) == 1

\* INSERT INTO usage_logs on a connection of the pool.  New runs PRAGMA foreign_keys =
\* ON once, on the connection the pool hands out for that statement; the connections
\* the pool opens later, under concurrent requests, never ran it.  fk: the connection
\* of the insert enforces foreign keys, and refuses a row whose client is gone.
InsertAccepted(clientID, fk) == fk => clientID \in DOMAIN clients

\* CreateUsageLog and the response: one insert, whose failure is dropped
LogAndRespond(r) ==
    LET q == req[r] IN
    /\ q.pc = "log"
    /\ \E ioOk \in BOOLEAN, fk \in BOOLEAN :
         LET dbOk  == ioOk /\ InsertAccepted(q.client.id, fk)
             n     == InsertsAfterExecute(q)
             rows  == IF dbOk
                      THEN [i \in 1..n |-> [UsageLogFor(q, now) EXCEPT
                                               !.id = nextLogId + i - 1]]
                      ELSE <<>>
             logID == IF dbOk /\ n > 0 THEN nextLogId + n - 1 ELSE 0
             st    == StatusAfterLog(q, dbOk)
         IN
         /\ usageLogs' = usageLogs \o rows
         /\ nextLogId' = nextLogId + Len(rows)
         /\ req' = [req EXCEPT ![r].pc = "done", ![r].inserts = @ + n,
                               ![r].logged = IF dbOk THEN "ok" ELSE "fail",
                               ![r].status = st,
                               ![r].error = IF st = 200 THEN "" ELSE "CLI execution failed",
                               ![r].resp = IF st = 200 THEN ResponseFor(q, logID)
                                           ELSE NoResp]
    /\ UNCHANGED <<tool, now, clients, installed, modelsCache, limiters, limObj, rateBuckets,
                   rl>>

----------------------------------------------------------------------------
(* The operator tool (ClientManager) and the admin handler *)

\* auth.GenerateAPIKey: the keys the random source may give; one of them is the key
\* of a client that exists
NewKeys == {"aics_k1", "aics_k6"}

\* NewClientManager: availableModels (models) and modelsInfo (info) of the providers
\* that are available, asked of the tool's own provider objects, whose caches start
\* empty; a discovery that failed for the first is run again for the second
ToolEnvs ==
    LET avail   == {p \in Providers : installed[p]}
        Fetches == {f \in [avail -> UNION {FetchResults(p) : p \in avail}] :
                       \A p \in avail : f[p] \in FetchResults(p)}
    IN {[models |-> [p \in avail |->
                       GetSupportedModels(p, [cached |-> Len(f[p]) > 0, models |-> f[p]])],
         info   |-> [p \in avail |-> IF Len(f[p]) > 0 THEN f[p] ELSE g[p]]]
          : f \in Fetches, g \in Fetches}

\* A new row of clients, before the INSERT gives it its id
NewClient(apiKey, provider, models, defaultModel, rateLimit, expiresAt) ==
    [id |-> 0, apiKeyHash |-> HashAPIKey(apiKey), provider |-> provider,
     allowedModels |-> models, defaultModel |-> defaultModel,
     rateLimitPerMinute |-> rateLimit, expiresAt |-> expiresAt, isActive |-> TRUE]

\* A creation that stores the model list as it was given (a variant of
\* WildcardWhenEmpty)
KeepModels(models) == models

\* AddClientJSON: an empty model list becomes the wildcard
WildcardWhenEmpty(models) == IF Len(models) = 0 THEN <<"*">> ELSE models

\* The inputs of clients add --json
AddClientInputs ==
    [name : {"", "app"}, provider : {"", "cursor"},
     models : {<<>>, <<"m1">>}, rateLimit : {0, 1}]

\* AddClientJSON up to CreateClient; first is the provider the iteration over
\* availableModels gives first, "" when there is none
AddClientJSONOutcome(input, env, first, apiKey) ==
    LET provider     == IF input.provider = "" THEN first ELSE input.provider
        models       == WildcardWhenEmpty(input.models)
        rateLimit    == IF input.rateLimit = 0 THEN 60 ELSE input.rateLimit
        defaultModel == IF Len(models) > 0 /\ models[1] # "*" THEN models[1]
                        ELSE IF provider \in DOMAIN env.models
                                /\ Len(env.models[provider]) > 0
                        THEN env.models[provider][1]
                        ELSE ""
    IN
    IF input.name = "" THEN [error |-> "name is required", client |-> NilClient]
    ELSE IF provider \notin DOMAIN env.models
    THEN [error |-> "provider is not available", client |-> NilClient]
    ELSE [error |-> "",
          client |-> NewClient(apiKey, provider, models, defaultModel, rateLimit,
                               NoExpiry)]

\* strings.TrimSpace(s) = "": s is made of spaces
IsBlank(s) == \A i \in 1..Len(s) : SubSeq(s, i, i) = " "

\* The options of the model multi-select: the wildcard, then the provider's models
ModelOptions(env, provider) == <<"*">> \o env.info[provider]

\* The options of the default-model select
DefaultModelOptions(env, provider, selectedModels) ==
    LET own == SelectSeq(selectedModels, LAMBDA m : m # "*") IN
    IF Len(own) = 0 \/ InList(selectedModels, "*") THEN env.info[provider] ELSE own

\* What an operator may enter in the forms of addClientInteractive
Forms(env) ==
    {f \in [name : {"", "app"}, provider : DOMAIN env.models,
            models : {<<>>, <<"*">>, <<"*", "m1">>},
            defaultModel : {"", "m1", "m2"}, rateLimit : {-1, 1}] :
        /\ \A i \in 1..Len(f.models) : InList(ModelOptions(env, f.provider), f.models[i])
        /\ LET options == DefaultModelOptions(env, f.provider, f.models) IN
           IF Len(options) = 0 THEN f.defaultModel = ""
           ELSE InList(options, f.defaultModel)}

\* addClientInteractive up to CreateClient; a form that does not validate is not
\* submitted, the operator gives up
addClientInteractiveOutcome(f, apiKey) ==
    IF IsBlank(f.name) THEN [error |-> "name cannot be empty", client |-> NilClient]
    ELSE IF Len(f.models) = 0
    THEN [error |-> "at least one model must be selected", client |-> NilClient]
    ELSE [error |-> "",
          client |-> NewClient(apiKey, f.provider, f.models, f.defaultModel,
                               IF f.rateLimit < 0 THEN 0 ELSE f.rateLimit, NoExpiry)]

\* The bodies of POST /admin/clients; expiresAt is "" when absent, "bad" when it is
\* not RFC3339, else the time "t1", which is tick 1
CreateClientRequests ==
    [valid : BOOLEAN, name : {"", "app"}, allowedModels : {<<>>, <<"m1">>},
     rateLimitPerMinute : {0, 1}, expiresAt : {"", "bad", "t1"}]

\* HandleCreateClient up to CreateClient; the row has no provider
HandleCreateClientOutcome(body, apiKey) ==
    LET fail(st, msg) == [status |-> st, error |-> msg, client |-> NilClient]
        rateLimit == IF body.rateLimitPerMinute <= 0 THEN 60 ELSE body.rateLimitPerMinute
    IN
    IF ~body.valid THEN fail(400, "invalid request body")
    ELSE IF body.name = "" THEN fail(400, "name is required")
    ELSE IF Len(body.allowedModels) = 0 THEN fail(400, "allowed_models is required")
    ELSE IF body.expiresAt = "bad"
    THEN fail(400, "invalid expires_at format, use RFC3339")
    ELSE [status |-> 201, error |-> "",
          client |-> NewClient(apiKey, "", body.allowedModels, "", rateLimit,
                               IF body.expiresAt = "" THEN NoExpiry ELSE 1)]

\* CreateClient and what follows it: the key is shown when the INSERT went through
CreateClient(name, models, o, apiKey) ==
    /\ del.pc = "idle"
    /\ nextClientId <= MaxClientId
    /\ \E dbOk \in BOOLEAN :
         IF o.error = "" /\ dbOk /\ CanInsertClient(o.client)
         THEN /\ clients' = InsertClient(o.client)
              /\ nextClientId' = nextClientId + 1
              /\ issued' = issued \cup {<<apiKey, nextClientId>>}
              /\ op' = [name |-> name, models |-> models, id |-> nextClientId,
                        error |-> ""]
         ELSE /\ op' = [name |-> name, models |-> models, id |-> 0,
                        error |-> IF o.error # "" THEN o.error
                                  ELSE "failed to create client"]
              /\ UNCHANGED <<clients, nextClientId, issued>>
    /\ UNCHANGED <<sweep, mi, call, now, installed, modelsCache, limiters, limObj, rateBuckets,
                   usageLogs, nextLogId, req, rl, del, stats>>

\* clients add --json <input>
AddClientJSON ==
    \E input \in AddClientInputs, env \in ToolEnvs, apiKey \in NewKeys :
        \E first \in IF DOMAIN env.models = {} THEN {""} ELSE DOMAIN env.models :
            CreateClient("AddClientJSON", input.models,
                         AddClientJSONOutcome(input, env, first, apiKey), apiKey)

\* The "Add new client" dialogue of the tool
addClientInteractive ==
    \E env \in ToolEnvs, apiKey \in NewKeys :
        IF DOMAIN env.models = {}
        THEN CreateClient("addClientInteractive", <<>>,
                          [error |-> "no providers available", client |-> NilClient],
                          apiKey)
        ELSE \E f \in Forms(env) :
                 CreateClient("addClientInteractive", f.models,
                              addClientInteractiveOutcome(f, apiKey), apiKey)

\* POST /admin/clients
HandleCreateClient ==
    \E body \in CreateClientRequests, apiKey \in NewKeys :
        CreateClient("HandleCreateClient", body.allowedModels,
                     HandleCreateClientOutcome(body, apiKey), apiKey)

\* The ids an operator asks to delete: a client of the start, and the one created
\* last (which may not exist)
DeleteIds == {1, MaxClientId}

\* DeleteClientJSON and deleteClientInteractive, first statement: the usage logs
DeleteClientLogs ==
    /\ del.pc = "idle"
    /\ \E id \in DeleteIds, dbOk \in BOOLEAN :
         IF dbOk
         THEN /\ usageLogs' = DeleteUsageLogsByClient(id)
              /\ del' = [pc |-> "client", id |-> id]
              /\ UNCHANGED op
         ELSE /\ op' = [name |-> "DeleteClient", models |-> <<>>, id |-> 0,
                        error |-> "failed to delete usage logs"]
              /\ UNCHANGED <<usageLogs, del>>
    /\ UNCHANGED <<sweep, mi, call, now, clients, installed, modelsCache, limiters, limObj, rateBuckets,
                   nextLogId, req, rl, nextClientId, issued, stats>>

\* DeleteClientJSON and deleteClientInteractive, second statement: the client row,
\* and with it, by ON DELETE CASCADE, the rows that refer to it (the tool works on
\* the one connection on which it set PRAGMA foreign_keys)
DeleteClientRow ==
    /\ del.pc = "client"
    /\ \E dbOk \in BOOLEAN :
         IF dbOk
         THEN /\ clients' = DeleteClient(del.id)
              /\ usageLogs' = DeleteUsageLogsByClient(del.id)
              /\ rateBuckets' = CascadeBuckets(del.id)
              /\ op' = [name |-> "DeleteClient", models |-> <<>>, id |-> del.id,
                        error |-> ""]
         ELSE /\ op' = [name |-> "DeleteClient", models |-> <<>>, id |-> 0,
                        error |-> "failed to delete client"]
              /\ UNCHANGED <<clients, usageLogs, rateBuckets>>
    /\ del' = [pc |-> "idle", id |-> 0]
    /\ UNCHANGED <<sweep, mi, call, now, installed, modelsCache, limiters, limObj, nextLogId, req, rl,
                   nextClientId, issued, stats>>

----------------------------------------------------------------------------
(* The usage handler: GET /v1/usage/stats *)

\* The rows the statistics are computed from, were the queries without
\* WHERE client_id = ? (a variant of StatsRows)
StatsRowsAnyClient(clientID, startTime, endTime) ==
    {i \in 1..Len(usageLogs) :
        /\ startTime = NoTime \/ usageLogs[i].timestamp >= startTime
        /\ endTime = NoTime \/ usageLogs[i].timestamp <= endTime}

\* WHERE client_id = ? [AND timestamp >= ?] [AND timestamp <= ?]: the rows selected
StatsRows(clientID, startTime, endTime) ==
    {i \in 1..Len(usageLogs) :
        /\ usageLogs[i].clientID = clientID
        /\ startTime = NoTime \/ usageLogs[i].timestamp >= startTime
        /\ endTime = NoTime \/ usageLogs[i].timestamp <= endTime}

\* SELECT provider, COUNT(*) ... GROUP BY provider
CountByProvider(rows) ==
    [p \in {usageLogs[i].provider : i \in rows} |->
        Cardinality({i \in rows : usageLogs[i].provider = p})]

\* SELECT model, COUNT(*) ... GROUP BY model
CountByModel(rows) ==
    [m \in {usageLogs[i].model : i \in rows} |->
        Cardinality({i \in rows : usageLogs[i].model = m})]

\* The callers of /v1/usage/stats and the bounds of the range they ask for
StatsClients == {1}
StatsTimes == {NoTime, 0}

\* GetUsageStats, first query: the totals.  A failed query ends the call with 500.
StatsTotals ==
    /\ stats.pc \in {"idle", "done"}
    /\ \E c \in StatsClients, st \in StatsTimes, et \in StatsTimes, dbOk \in BOOLEAN :
         LET rows == StatsRows(c, st, et) IN
         stats' = IF ~dbOk
                  THEN [NoStats EXCEPT !.pc = "done", !.clientID = c, !.startTime = st,
                                       !.endTime = et, !.status = 500]
                  ELSE [NoStats EXCEPT
                          !.pc = "byProvider", !.clientID = c, !.startTime = st,
                          !.endTime = et,
                          !.totalRequests = Cardinality(rows),
                          !.totalTokens =
                              SumSet([i \in rows |-> usageLogs[i].totalTokens], rows),
                          !.totalCost =
                              SumSet([i \in rows |-> usageLogs[i].cost], rows)]
    /\ UNCHANGED <<sweep, mi, call, now, clients, installed, modelsCache, limiters, limObj, rateBuckets,
                   usageLogs, nextLogId, req, rl, nextClientId, issued, op, del>>

\* GetUsageStats, second query: the breakdown by provider
StatsByProvider ==
    /\ stats.pc = "byProvider"
    /\ \E dbOk \in BOOLEAN :
         stats' = IF ~dbOk THEN [stats EXCEPT !.pc = "done", !.status = 500]
                  ELSE [stats EXCEPT
                          !.pc = "byModel",
                          !.byProvider = CountByProvider(
                              StatsRows(stats.clientID, stats.startTime, stats.endTime))]
    /\ UNCHANGED <<sweep, mi, call, now, clients, installed, modelsCache, limiters, limObj, rateBuckets,
                   usageLogs, nextLogId, req, rl, nextClientId, issued, op, del>>

\* GetUsageStats, third query: the breakdown by model; the handler answers 200
StatsByModel ==
    /\ stats.pc = "byModel"
    /\ \E dbOk \in BOOLEAN :
         stats' = IF ~dbOk THEN [stats EXCEPT !.pc = "done", !.status = 500]
                  ELSE [stats EXCEPT
                          !.pc = "done", !.status = 200,
                          !.byModel = CountByModel(
                              StatsRows(stats.clientID, stats.startTime, stats.endTime))]
    /\ UNCHANGED <<sweep, mi, call, now, clients, installed, modelsCache, limiters, limObj, rateBuckets,
                   usageLogs, nextLogId, req, rl, nextClientId, issued, op, del>>

----------------------------------------------------------------------------
(* Calls of the helpers of the chat handler *)

MaxMsgs == 3
MaxTokens == 3

MsgRoles == {"user", "system", "assistant"}
MsgContents == {"", "a", "b"}
MessageLists ==
    UNION {[1..n -> [role : MsgRoles, content : MsgContents]] : n \in 0..MaxMsgs}

CostModels == PriceTable \cup {"", "m1"}
TokenCounts == -1..MaxTokens

HelperCalls ==
    {[fn |-> "messagesToPrompt", args |-> <<ms>>, done |-> FALSE, out |-> <<>>]
       : ms \in MessageLists}
    \cup
    {[fn |-> "calculateCost", args |-> <<m, t[1], t[2]>>, done |-> FALSE, out |-> <<>>]
       : m \in CostModels, t \in TokenCounts \X TokenCounts}

\* prompt := h.messagesToPrompt(req.Messages)
BuildPrompt ==
    /\ call.fn = "messagesToPrompt" /\ ~call.done
    /\ call' = [call EXCEPT !.done = TRUE, !.out = <<messagesToPrompt(call.args[1])>>]
    /\ UNCHANGED <<sweep, mi, now, clients, installed, modelsCache, limiters, limObj, rateBuckets,
                   usageLogs, nextLogId, req, rl, nextClientId, issued, op, del, stats>>

\* cost := h.calculateCost(req.Model, resp.TotalTokens), for two token counts
EstimateCost ==
    /\ call.fn = "calculateCost" /\ ~call.done
    /\ call' = [call EXCEPT !.done = TRUE,
                            !.out = <<calculateCost(call.args[1], call.args[2]),
                                      calculateCost(call.args[1], call.args[3])>>]
    /\ UNCHANGED <<sweep, mi, now, clients, installed, modelsCache, limiters, limObj, rateBuckets,
                   usageLogs, nextLogId, req, rl, nextClientId, issued, op, del, stats>>

----------------------------------------------------------------------------
(* GetModelsInfo, step by step *)

\* A GetModelsInfo that fetches without looking at the cache again
MustFetchAlways(p) == TRUE

\* Under the write lock: TRUE iff the models have to be fetched (the double check)
MustFetch(p) == ~modelsCache[p].cached

\* A GetModelsInfo that caches whatever the fetch returns
CommittedAlways(fetched) == TRUE

\* The result of a fetch is cached iff it holds a model
Committed(fetched) == Len(fetched) > 0

\* A goroutine calls GetModelsInfo of provider p
CallGetModelsInfo(k, p) ==
    /\ mi.caller[k].pc \in {"idle", "done"}
    /\ mi.caller[k].calls < MaxCalls
    /\ mi' = [mi EXCEPT !.caller[k] =
                 [pc |-> "rlock", p |-> p, after |-> modelsCache[p].cached, ran |-> FALSE,
                  fetched |-> <<>>, out |-> <<>>, calls |-> mi.caller[k].calls + 1]]
    /\ UNCHANGED <<sweep, now, clients, installed, modelsCache, limiters, limObj, rateBuckets,
                   usageLogs, nextLogId, req, rl, nextClientId, issued, op, del, stats,
                   call>>

\* RLock; return the cache if it is populated; RUnlock
ReadCache(k) ==
    LET c == mi.caller[k] IN
    /\ c.pc = "rlock"
    /\ mi.lock[c.p] = 0
    /\ mi' = IF modelsCache[c.p].cached
             THEN [mi EXCEPT !.caller[k].pc = "done",
                             !.caller[k].out = modelsCache[c.p].models]
             ELSE [mi EXCEPT !.caller[k].pc = "lock"]
    /\ UNCHANGED <<sweep, now, clients, installed, modelsCache, limiters, limObj, rateBuckets,
                   usageLogs, nextLogId, req, rl, nextClientId, issued, op, del, stats,
                   call>>

\* Lock; look again; return the cache if another caller populated it, start the help
\* invocation otherwise (the lock stays held while it runs)
LockCache(k) ==
    LET c == mi.caller[k] IN
    /\ c.pc = "lock"
    /\ mi.lock[c.p] = 0
    /\ mi' = IF MustFetch(c.p)
             THEN [mi EXCEPT !.lock[c.p] = k,
                             !.caller[k].pc = "fetching",
                             !.discoveries[c.p] = @ + 1]
             ELSE [mi EXCEPT !.caller[k].pc = "done",
                             !.caller[k].out = modelsCache[c.p].models]
    /\ UNCHANGED <<sweep, now, clients, installed, modelsCache, limiters, limObj, rateBuckets,
                   usageLogs, nextLogId, req, rl, nextClientId, issued, op, del, stats,
                   call>>

\* The help invocation returns; cache its result if there is one; return the cache;
\* Unlock
FetchDone(k) ==
    LET c == mi.caller[k] IN
    /\ c.pc = "fetching"
    /\ \E fetched \in FetchResults(c.p) :
         LET cache == IF Committed(fetched) THEN [cached |-> TRUE, models |-> fetched]
                      ELSE modelsCache[c.p]
         IN /\ modelsCache' = [modelsCache EXCEPT ![c.p] = cache]
            /\ mi' = [mi EXCEPT !.lock[c.p] = 0,
                                !.caller[k].pc = "done",
                                !.caller[k].ran = TRUE,
                                !.caller[k].fetched = fetched,
                                !.caller[k].out = cache.models,
                                !.commits[c.p] = IF Committed(fetched) THEN @ + 1 ELSE @]
    /\ UNCHANGED <<sweep, now, clients, installed, limiters, limObj, rateBuckets,
                   usageLogs, nextLogId, req, rl, nextClientId, issued, op, del, stats,
                   call>>

----------------------------------------------------------------------------
(* The periodic sweep of rate_limit_buckets *)

MaxSweepMinutes == 72
MaxRecorded == 2

SweepEnd == MaxSweepMinutes * TicksPerMinute

\* A purge without its WHERE clause (a variant of CleanupOldRateLimitBuckets)
CleanupAllRateLimitBuckets(tbl, before) == <<>>

\* DELETE FROM rate_limit_buckets WHERE window_start < ?
CleanupOldRateLimitBuckets(tbl, before) ==
    [k \in {j \in DOMAIN tbl : ~(j[2] < before)} |-> tbl[k]]

\* A minute passes; a round that is due runs within the minute in which the ticker
\* fired.  The clock of the model stops at SweepEnd.
SweepPass ==
    /\ now + TicksPerMinute <= SweepEnd
    /\ now < sweep.next
    /\ now' = now + TicksPerMinute
    /\ UNCHANGED <<clients, installed, modelsCache, limiters, limObj, rateBuckets,
                   usageLogs, nextLogId, req, rl, tool>>

\* The ledger write of an admitted request of client 1, in the minute of time.Now()
RecordAdmission ==
    /\ SumSet(rateBuckets, DOMAIN rateBuckets) < MaxRecorded
    /\ rateBuckets' = UpsertBucket(rateBuckets, 1, TruncateMinute(now))
    /\ UNCHANGED <<now, clients, installed, modelsCache, limiters, limObj,
                   usageLogs, nextLogId, req, rl, tool>>

\* The ticker has fired and cleanupLimiters has not yet served it; where the clock of
\* the model stops the ticker goes on firing
SweepDue == now >= sweep.next \/ now = SweepEnd

\* cleanupLimiters, one round of its loop: CleanupOldRateLimitBuckets(now - 1 hour)
SweepOk ==
    /\ SweepDue
    /\ rateBuckets' = CleanupOldRateLimitBuckets(rateBuckets,
                                                 now - RetentionMinutes * TicksPerMinute)
    /\ sweep' = [next |-> Min(SweepEnd, sweep.next + SweepMinutes * TicksPerMinute)]
    /\ UNCHANGED <<now, clients, installed, modelsCache, limiters, limObj,
                   usageLogs, nextLogId, req, rl, nextClientId, issued, op, del, stats,
                   call, mi>>

\* The same round when the statement fails: the error is dropped
SweepFail ==
    /\ SweepDue
    /\ sweep' = [next |-> Min(SweepEnd, sweep.next + SweepMinutes * TicksPerMinute)]
    /\ UNCHANGED <<now, clients, installed, modelsCache, limiters, limObj, rateBuckets,
                   usageLogs, nextLogId, req, rl, nextClientId, issued, op, del, stats,
                   call, mi>>

----------------------------------------------------------------------------
(* GET /v1/usage *)

\* strconv.Atoi: an optional sign and one or more decimal digits
Digits == <<"0", "1", "2", "3", "4", "5", "6", "7", "8", "9">>

IsDigit(ch) == \E d \in 1..Len(Digits) : Digits[d] = ch

DigitValue(ch) == (CHOOSE d \in 1..Len(Digits) : Digits[d] = ch) - 1

RECURSIVE DigitsValue(_)
DigitsValue(s) ==
    IF Len(s) = 0 THEN 0
    ELSE DigitsValue(SubSeq(s, 1, Len(s) - 1)) * 10 + DigitValue(SubSeq(s, Len(s), Len(s)))

Atoi(s) ==
    LET signed == Len(s) > 0 /\ SubSeq(s, 1, 1) \in {"+", "-"}
        digits == IF signed THEN SubSeq(s, 2, Len(s)) ELSE s
    IN IF Len(digits) = 0 \/ \E i \in 1..Len(digits) : ~IsDigit(SubSeq(digits, i, i))
       THEN [ok |-> FALSE, value |-> 0]
       ELSE [ok |-> TRUE,
             value |-> IF signed /\ SubSeq(s, 1, 1) = "-" THEN 0 - DigitsValue(digits)
                       ELSE DigitsValue(digits)]

\* time.Parse(time.RFC3339, s) for the instants of the model: tick t is t half minutes
\* (TicksPerMinute = 2) after the epoch
RFC3339 == <<"1970-01-01T00:00:00Z", "1970-01-01T00:00:30Z", "1970-01-01T00:01:00Z",
             "1970-01-01T00:01:30Z", "1970-01-01T00:02:00Z">>

ParseTime(s) ==
    IF \E i \in 1..Len(RFC3339) : RFC3339[i] = s
    THEN [ok |-> TRUE, value |-> (CHOOSE i \in 1..Len(RFC3339) : RFC3339[i] = s) - 1]
    ELSE [ok |-> FALSE, value |-> 0]

DefaultLimit == 100

\* limit: the parameter when it parses to a positive number, 100 otherwise
ParseLimit(l) ==
    IF l # "" /\ Atoi(l).ok /\ Atoi(l).value > 0 THEN Atoi(l).value ELSE DefaultLimit

\* offset: the parameter when it parses to a number that is not negative, 0 otherwise
ParseOffset(o) ==
    IF o # "" /\ Atoi(o).ok /\ Atoi(o).value >= 0 THEN Atoi(o).value ELSE 0

\* start_time, end_time: the parameter when it parses, no bound otherwise
ParseBound(t) == IF t # "" /\ ParseTime(t).ok THEN ParseTime(t).value ELSE NoTime

\* The rows a query selects from usage_logs, as positions in the table
\* (a variant of SelectedRows without WHERE client_id = ?)
SelectedRowsAnyClient(clientID, startTime, endTime) ==
    {i \in 1..Len(usageLogs) :
        /\ startTime = NoTime \/ usageLogs[i].timestamp >= startTime
        /\ endTime = NoTime \/ usageLogs[i].timestamp <= endTime}

\* WHERE client_id = ? [AND timestamp >= ?] [AND timestamp <= ?]
SelectedRows(clientID, startTime, endTime) ==
    {i \in 1..Len(usageLogs) :
        /\ usageLogs[i].clientID = clientID
        /\ startTime = NoTime \/ usageLogs[i].timestamp >= startTime
        /\ endTime = NoTime \/ usageLogs[i].timestamp <= endTime}

\* ORDER BY timestamp DESC: the orders SQLite may produce (rows of one timestamp come
\* in any order)
NewestFirst(rows) ==
    {f \in [1..Cardinality(rows) -> rows] :
        /\ \A i, j \in DOMAIN f : i # j => f[i] # f[j]
        /\ \A i, j \in DOMAIN f :
              i < j => usageLogs[f[i]].timestamp >= usageLogs[f[j]].timestamp}

\* GetUsageLogs with its filters: the results the query may have, LIMIT ? OFFSET ?
GetUsageLogsPage(clientID, limit, offset, startTime, endTime) ==
    {[i \in 1..Max(0, Min(offset + limit, Len(f)) - offset) |-> usageLogs[f[offset + i]]]
       : f \in NewestFirst(SelectedRows(clientID, startTime, endTime))}

\* The query parameters a caller may send ("": absent)
LimitParams == {"", "0", "-1", "abc", "1", "2"}
OffsetParams == {"", "-1", "x", "0", "1"}
TimeParams == {"", "yesterday", RFC3339[2]}
UsageClients == {1}

\* HandleGetUsage, for the client the middleware put in the context; a query changes
\* nothing, so one query per table is followed
HandleGetUsage ==
    /\ call.fn = ""
    /\ \E c \in UsageClients, l \in LimitParams, o \in OffsetParams,
          st \in TimeParams, et \in TimeParams, dbOk \in BOOLEAN :
         LET limit == ParseLimit(l)
             offset == ParseOffset(o)
         IN \E logs \in GetUsageLogsPage(c, limit, offset, ParseBound(st), ParseBound(et)) :
              call' = [fn |-> "HandleGetUsage", args |-> <<c, l, o, st, et>>, done |-> TRUE,
                       out |-> IF dbOk
                               THEN [status |-> 200, logs |-> logs, limit |-> limit,
                                     offset |-> offset]
                               ELSE [status |-> 500, logs |-> <<>>, limit |-> 0,
                                     offset |-> 0]]
    /\ UNCHANGED <<sweep, mi, now, clients, installed, modelsCache, limiters, limObj, rateBuckets,
                   usageLogs, nextLogId, req, rl, nextClientId, issued, op, del, stats>>

----------------------------------------------------------------------------
(* Specifications *)

\* The steps of the middleware chain of one request: Authenticate, then RateLimit
Middleware(r) ==
    \/ Authenticate(r)
    \/ GetLimiterRead(r)
    \/ GetLimiterWrite(r)
    \/ Allow(r)
    \/ IncrementRateLimitBucket(r)

\* The steps of HandleChatCompletion of one request whose body is one of bs
Handler(r, bs) ==
    \/ Handle(r, bs)
    \/ Execute(r)
    \/ LogAndRespond(r)

\* The whole pipeline, under concurrent requests of any caller
Next ==
    \/ Tick
    \/ \E r \in 1..MaxReq :
         \/ Arrive(r, Headers)
         \/ Middleware(r)
         \/ Handler(r, Bodies)

Spec == Init /\ [][Next]_vars

\* The middleware chain alone, under concurrent requests of the registered callers;
\* a request that RateLimit passes on stops at the entry of the handler
RateHeaders == {"Bearer aics_k1", "Bearer aics_k2"}

RateNext ==
    \/ Tick
    \/ \E r \in 1..MaxRateReq :
         \/ Arrive(r, RateHeaders)
         \/ Middleware(r)

RateSpec == Init /\ [][RateNext]_vars

\* The whole pipeline under concurrent requests of the callers that can pass the
\* rate limiter: clients 1 and 5 on the installed provider, client 3 on the other;
\* the requests are served within one tick of the clock, on a machine with any of
\* the two binaries
HandlerHeaders == {"Bearer aics_k1", "Bearer aics_k3", "Bearer aics_k5"}

HandlerInit == \E inst \in [Providers -> BOOLEAN] : InitWith(inst)

HandlerNext ==
    \E r \in 1..MaxReq :
        \/ Arrive(r, HandlerHeaders)
        \/ Middleware(r)
        \/ Handler(r, Bodies)

HandlerSpec == HandlerInit /\ [][HandlerNext]_vars

ScenarioHeaders == {"Bearer aics_k1"}

\* Clients are created while the middleware chain serves concurrent requests of
\* client 1 and of the holder of a new key, within one tick of the clock
AdminHeaders == {"Bearer aics_k1", "Bearer aics_k6"}

AdminNext ==
    \/ AddClientJSON
    \/ addClientInteractive
    \/ HandleCreateClient
    \/ \E r \in 1..MaxReq :
         \/ Arrive(r, AdminHeaders)
         \/ Middleware(r)

AdminSpec == Init /\ [][AdminNext]_vars

\* A chat request for model m1
PlainBody == [valid |-> TRUE, provider |-> "", model |-> "m1", messages |-> Messages]

\* An operator deletes clients while the server serves requests of client 1, which
\* arrive one after the other and are served within one tick of the clock
DeleteNext ==
    \/ DeleteClientLogs
    \/ DeleteClientRow
    \/ \E r \in 1..MaxReq :
         \/ InFlight = {} /\ Arrive(r, ScenarioHeaders)
         \/ Middleware(r)
         \/ Handler(r, {PlainBody})

DeleteSpec == Init /\ [][DeleteNext]_vars

\* The whole pipeline with the steps of Execute, under requests of a copilot client
\* and a cursor client that arrive one after the other, on a machine with both
\* binaries
ExecHeaders == {"Bearer aics_k1", "Bearer aics_k3"}

ExecInit == InitWith([p \in Providers |-> TRUE])

ExecNext ==
    \/ ExecTick
    \/ \E r \in 1..MaxReq :
         \/ InFlight = {} /\ Arrive(r, ExecHeaders)
         \/ Middleware(r)
         \/ Handle(r, {PlainBody})
         \/ ExecuteCall(r)
         \/ Start(r)
         \/ Exit(r)
         \/ Kill(r)
         \/ Cancel(r)
         \/ ExecuteReturn(r)
         \/ LogAndRespond(r)

ExecSpec == ExecInit /\ [][ExecNext]_vars

\* Client 1 asks for its statistics while its chat requests, which arrive one after
\* the other, are served
StatsNext ==
    \/ Tick
    \/ StatsTotals
    \/ StatsByProvider
    \/ StatsByModel
    \/ \E r \in 1..MaxReq :
         \/ InFlight = {} /\ Arrive(r, ScenarioHeaders)
         \/ Middleware(r)
         \/ Handler(r, {PlainBody})

StatsSpec == Init /\ [][StatsNext]_vars

\* The whole pipeline under requests of client 1 that arrive one after the other
ScenarioBody(r) ==
    [valid |-> TRUE, provider |-> "", model |-> ScenarioModels[r], messages |-> Messages]

ScenarioNext ==
    \/ Tick
    \/ \E r \in 1..Len(ScenarioModels) :
         \/ InFlight = {} /\ Arrive(r, ScenarioHeaders)
         \/ Middleware(r)
         \/ Handler(r, {ScenarioBody(r)})

ScenarioSpec == Init /\ [][ScenarioNext]_vars

----------------------------------------------------------------------------
(* Properties of rate admission (RateSpec) *)

\* The limit of client c, and what the histories say about it
Limit(c) == IF c \in DOMAIN clients THEN clients[c].rateLimitPerMinute ELSE 0

\* The requests of client c that RateLimit answered 429
RateLimited(c) == {r \in Req : req[r].client.id = c /\ req[r].status = 429}

\* The admissions of client c in the ticks a..b
AdmitsIn(c, a, b) ==
    SumSet([t \in Ticks |-> rl[c][t].admits], {t \in Ticks : a <= t /\ t <= b})

\* The calls of Allow() of client c that returned false
Refusals(c) ==
    SumSet([t \in Ticks |-> rl[c][t].calls - rl[c][t].admits], Ticks)

\* request_count of the row (c, w) of rate_limit_buckets, 0 when there is none
RowCount(tbl, c, w) == IF <<c, w>> \in DOMAIN tbl THEN tbl[<<c, w>>] ELSE 0

\* The ticks that start a minute
MinuteStarts == {t \in Ticks : t % TicksPerMinute = 0}

\* C1: for a client of limit N > 0 whose bucket is full when a tick begins (a
\* bucket is full when it is created and never holds more than N tokens), the
\* requests that call Allow() within the tick (no refill between them) are
\* admitted up to the Nth and rejected from the (N+1)th on; a rejected request
\* is answered 429 and ends there, it reaches neither the ledger nor the handler.
FullBucketAdmitsExactlyLimit ==
    /\ \A c \in ClientIds, t \in Ticks :
         /\ rl[c][t].avail <= Limit(c) * TicksPerMinute
         /\ (rl[c][t].avail >= 0 /\ (IF t = 0 THEN TRUE ELSE rl[c][t - 1].avail < 0))
               => rl[c][t].avail = Limit(c) * TicksPerMinute
         /\ (Limit(c) > 0 /\ rl[c][t].avail = Limit(c) * TicksPerMinute)
               => rl[c][t].admits = Min(Limit(c), rl[c][t].calls)
    /\ \A c \in ClientIds : Cardinality(RateLimited(c)) = Refusals(c)
    /\ \A r \in Req :
         /\ req[r].status = 429
               => /\ req[r].pc = "done" /\ ~req[r].admitted
                  /\ req[r].error = "rate limit exceeded"
                  /\ req[r].counted = "none" /\ req[r].execs = 0
         /\ req[r].pc \in {"increment", "handler", "execute", "log"} => req[r].admitted

\* Client 1 (limit 2) has sent three requests in the tick its bucket was full in
FullBucketOverrun ==
    \E t \in Ticks :
        /\ rl[1][t].avail = Limit(1) * TicksPerMinute
        /\ rl[1][t].calls = Limit(1) + 1 /\ rl[1][t].admits = Limit(1)
        /\ Cardinality(RateLimited(1)) = 1

\* C2: for a client of limit N > 0, every interval of one minute, starting at any
\* tick, holds at most N admissions of the client.
RollingWindowAtMostLimit ==
    \A c \in ClientIds :
        Limit(c) > 0 =>
            \A t \in Ticks : AdmitsIn(c, t, t + TicksPerMinute - 1) <= Limit(c)

\* C3: a request of a client whose limit is 0 is never answered 429.
ZeroLimitNeverRejected ==
    \A r \in Req :
        (req[r].client # NilClient /\ req[r].client.rateLimitPerMinute = 0)
            => req[r].status # 429

\* C5: in every tick and under every interleaving, of the calls of Allow() of one
\* client exactly as many return true as the bucket held whole tokens when the
\* tick began (all of them when there were fewer calls), and each of the others
\* is a request answered 429: no token is consumed twice.
TokenConsumedOnce ==
    /\ \A c \in ClientIds, t \in Ticks :
         rl[c][t].avail >= 0
            => rl[c][t].admits = Min(rl[c][t].calls, rl[c][t].avail \div TicksPerMinute)
    /\ \A c \in ClientIds, t \in Ticks : rl[c][t].avail < 0 => rl[c][t].calls = 0
    /\ \A c \in ClientIds : Cardinality(RateLimited(c)) = Refusals(c)
    /\ \A c \in ClientIds :
         Cardinality({r \in Req : req[r].client.id = c /\ req[r].admitted})
            = AdmitsIn(c, 0, MaxTime)

\* Three requests of client 1 raced for the two tokens of one tick and the first
\* to arrive lost
TokenRaceLost ==
    \E t \in Ticks :
        /\ rl[1][t].calls = 3 /\ rl[1][t].admits = 2
        /\ req[1].status = 429 /\ req[2].admitted /\ req[3].admitted

\* The requests of client c whose increment of the ledger succeeded
Counted(c) == {r \in Req : req[r].client.id = c /\ req[r].counted = "ok"}

\* The sum of request_count over the rows of client c
LedgerTotal(c) ==
    SumSet([t \in Ticks |-> RowCount(rateBuckets, c, t)], Ticks)

\* No increment is pending and none has failed
LedgerSettled ==
    \A r \in Req : req[r].pc # "increment" /\ req[r].counted # "fail"

\* C7 as stated: once the ledger is settled, the row (client, minute) counts the
\* requests of the client that the limiter admitted in that minute.
LedgerRowIsAdmissionsOfMinute ==
    LedgerSettled =>
        \A c \in ClientIds, w \in MinuteStarts :
            RowCount(rateBuckets, c, w) = AdmitsIn(c, w, w + TicksPerMinute - 1)

\* The ledger holds rows of whole minutes only; an incremented request was
\* admitted, a rejected one is never counted, and the rows of a client add up to
\* its requests whose increment succeeded
LedgerInv ==
    /\ \A k \in DOMAIN rateBuckets : k[1] \in ClientIds /\ k[2] \in MinuteStarts
    /\ \A r \in Req :
         /\ req[r].counted # "none" => req[r].admitted
         /\ req[r].status = 429 => req[r].counted = "none"
         /\ req[r].pc \in {"handler", "execute", "log"} => req[r].counted # "none"
    /\ \A c \in ClientIds : LedgerTotal(c) = Cardinality(Counted(c))

\* The ledger changes only by the increment of one admitted request, which adds
\* one to the row of the minute the increment runs in and leaves every other row
LedgerStep ==
    rateBuckets' # rateBuckets =>
        \E r \in Req :
            /\ req[r].pc = "increment" /\ req[r].admitted
            /\ req'[r].pc = "handler" /\ req'[r].counted = "ok"
            /\ \A c \in ClientIds, w \in Ticks :
                 RowCount(rateBuckets', c, w) =
                     RowCount(rateBuckets, c, w)
                       + (IF c = req[r].client.id /\ w = TruncateMinute(now)
                          THEN 1 ELSE 0)

\* C7: the ledger is incremented exactly once for each admitted request whose
\* increment the store accepts, in the row of the minute the increment runs in,
\* and never for a rejected request: the rows of a client add up to its admitted
\* requests that were counted (no lost update, no double count).
LedgerCountsEachAdmissionOnce == [] LedgerInv /\ [][LedgerStep]_vars

\* Client 1 was admitted in the last tick of a minute and counted in the next
\* minute's row, with a rejected request beside it
LedgerCountedInNextMinute ==
    \E w \in MinuteStarts :
        /\ LedgerSettled
        /\ RowCount(rateBuckets, 1, w) > AdmitsIn(1, w, w + TicksPerMinute - 1)
        /\ LedgerTotal(1) = 3

----------------------------------------------------------------------------
(* The end-to-end scenario (ScenarioSpec) *)

\* GetUsageStats: total_requests, the COUNT(*) of the client's usage_logs rows
TotalRequests(clientID) ==
    Cardinality({i \in 1..Len(usageLogs) : usageLogs[i].clientID = clientID})

\* The four requests were sent at once (no refill), every one was identified and
\* answered, and whatever was dispatched ran and was logged without a failure
ScenarioRan ==
    /\ now = 0
    /\ \A r \in 1..Len(ScenarioModels) :
         /\ req[r].pc = "done" /\ req[r].client # NilClient
         /\ req[r].execs > 0 => req[r].result.ok /\ req[r].logged = "ok"

ModelNotAllowed(r) ==
    req[r].status = 403 /\ req[r].error = "model is not allowed for this client"

\* C4 as stated: request 3 takes the second token and request 4 is the one the
\* limiter rejects; two requests are logged.
ScenarioAsStated ==
    ScenarioRan =>
        /\ req[1].status = 200 /\ req[1].inserts = 1
        /\ ModelNotAllowed(2) /\ req[2].inserts = 0
        /\ req[3].status = 200 /\ req[3].inserts = 1
        /\ req[4].status = 429 /\ req[4].inserts = 0
        /\ TotalRequests(1) = 2

\* C4: client 1 (limit 2, allow-list <<"m1">>, no default model) sends m1, m2, m1,
\* m1 at once: request 1 is admitted and logged with status 200; request 2 is
\* admitted by the limiter, taking the second token, and then rejected as model
\* not allowed, without a log entry; requests 3 and 4 are rejected with 429
\* without a log entry; total_requests of the client is 1.
ScenarioAsBuilt ==
    ScenarioRan =>
        /\ req[1].status = 200 /\ req[1].admitted /\ req[1].inserts = 1
        /\ usageLogs[1].responseStatus = 200 /\ usageLogs[1].model = "m1"
        /\ ModelNotAllowed(2) /\ req[2].admitted /\ req[2].inserts = 0
        /\ req[3].status = 429 /\ ~req[3].admitted /\ req[3].inserts = 0
        /\ req[4].status = 429 /\ ~req[4].admitted /\ req[4].inserts = 0
        /\ TotalRequests(1) = 1 /\ Len(usageLogs) = 1

\* The scenario has run to its end
ScenarioCompleted == ScenarioRan /\ req[4].status = 429 /\ TotalRequests(1) = 1

----------------------------------------------------------------------------
(* Properties of the whole pipeline (Spec) *)

\* Who rejected request r: the error response that was written for it
RejectedByAuth(r) == req[r].client = NilClient /\ req[r].status \in {401, 403}

RejectedByLimiter(r) == req[r].status = 429

RejectedByAllowList(r) == ModelNotAllowed(r)

\* C6: a request rejected by authentication, by the rate limiter or by the model
\* allow-list check has never called Execute nor CreateUsageLog, and usage_logs
\* holds rows of dispatched requests only.
RejectedNeverDispatched ==
    /\ \A r \in Req :
         (RejectedByAuth(r) \/ RejectedByLimiter(r) \/ RejectedByAllowList(r))
            => /\ req[r].pc = "done"
               /\ req[r].execs = 0 /\ req[r].result = NoResult
               /\ req[r].inserts = 0 /\ req[r].logged = "none"
    /\ Len(usageLogs) = Cardinality({r \in Req : req[r].logged = "ok"})
    /\ \A i \in 1..Len(usageLogs) :
         \E r \in Req : /\ req[r].execs = 1 /\ req[r].logged = "ok"
                        /\ req[r].client.id = usageLogs[i].clientID

\* One request was stopped by the allow-list and another by the limiter
RejectedTwice ==
    \E r1, r2 \in Req : RejectedByAllowList(r1) /\ RejectedByLimiter(r2)

\* The requests whose dispatch has completed and that were answered
Dispatched == {r \in Req : req[r].pc = "done" /\ req[r].execs > 0}

\* C8: a request whose dispatch completed, successfully or not, has made exactly
\* one insert attempt when it is answered, no request makes two and none inserts
\* without a dispatch; while no insert has failed, the usage_logs rows of a client
\* are as many as its dispatched requests.
OneInsertPerDispatch ==
    /\ \A r \in Req :
         /\ req[r].execs <= 1 /\ req[r].inserts <= 1
         /\ req[r].inserts > 0 => req[r].execs = 1
         /\ r \in Dispatched => req[r].inserts = 1 /\ req[r].logged # "none"
    /\ (\A r \in Req : req[r].logged # "fail" /\ req[r].pc # "log")
          => \A c \in ClientIds :
                 TotalRequests(c) = Cardinality({r \in Dispatched : req[r].client.id = c})

\* A failed execution was logged, with status 500
FailedExecutionLogged ==
    \E r \in Dispatched :
        /\ ~req[r].result.ok /\ req[r].inserts = 1 /\ req[r].logged = "ok"
        /\ \E i \in 1..Len(usageLogs) :
              /\ usageLogs[i].responseStatus = 500
              /\ usageLogs[i].clientID = req[r].client.id

\* What the caller of a dispatched request is told, the response id aside
Outcome(r) ==
    [status |-> req[r].status, error |-> req[r].error,
     content |-> req[r].resp.content, promptTokens |-> req[r].resp.promptTokens,
     completionTokens |-> req[r].resp.completionTokens,
     totalTokens |-> req[r].resp.totalTokens, cost |-> req[r].resp.cost]

\* C9: the status of a dispatched request and the content, token counts and cost
\* of its response are those of the execution (200 with the result, or 500),
\* and two requests with the same execution are told the same whether or not
\* their log inserts succeeded.
LogFailureKeepsOutcome ==
    /\ \A r \in Dispatched :
         /\ req[r].status = IF req[r].result.ok THEN 200 ELSE 500
         /\ req[r].result.ok
               => /\ req[r].resp.content = req[r].result.content
                  /\ req[r].resp.promptTokens = req[r].result.promptTokens
                  /\ req[r].resp.completionTokens = req[r].result.completionTokens
                  /\ req[r].resp.totalTokens = req[r].result.totalTokens
                  /\ req[r].resp.cost =
                        calculateCost(req[r].model, req[r].result.totalTokens)
         /\ ~req[r].result.ok
               => req[r].error = "CLI execution failed" /\ req[r].resp = NoResp
    /\ \A r1, r2 \in Dispatched :
         (/\ req[r1].result = req[r2].result /\ req[r1].model = req[r2].model
          /\ req[r1].provider = req[r2].provider)
            => Outcome(r1) = Outcome(r2)

\* The insert failed after a successful execution and after a failed one, and
\* it succeeded for neither
LogFailureOnBothPaths ==
    \E r1, r2 \in Dispatched :
        /\ req[r1].logged = "fail" /\ req[r1].status = 200
        /\ req[r1].resp.content # ""
        /\ req[r2].logged = "fail" /\ req[r2].status = 500

\* What a header is, read off its text
BearerForm(h) == Len(h) >= 7 /\ SubSeq(h, 1, 7) = "Bearer "

Credential(h) == SubSeq(h, 8, Len(h))

ShapeOk(h) == Len(h) >= 12 /\ SubSeq(h, 1, 12) = "Bearer aics_"

\* The client rows whose fingerprint is that of the header's credential
Matching(h) ==
    {c \in DOMAIN clients : clients[c].apiKeyHash = HashAPIKey(Credential(h))}

\* The outcomes of identity resolution for request r
Unauthenticated(r) ==
    /\ req[r].client = NilClient /\ req[r].pc = "done" /\ req[r].status = 401
    /\ req[r].error \in {"missing authorization header",
                         "invalid authorization header format"}
    /\ ~BearerForm(req[r].hdr)

InvalidCredential(r) ==
    /\ req[r].client = NilClient /\ req[r].pc = "done" /\ req[r].status = 401
    /\ req[r].error \in {"invalid API key format", "invalid API key"}
    /\ BearerForm(req[r].hdr)
    /\ ~ShapeOk(req[r].hdr) \/ Matching(req[r].hdr) = {}

Forbidden(r) ==
    /\ req[r].client = NilClient /\ req[r].pc = "done" /\ req[r].status = 403
    /\ req[r].error \in {"API key is inactive", "API key has expired"}
    /\ ShapeOk(req[r].hdr)
    /\ \E c \in Matching(req[r].hdr) :
          ~clients[c].isActive \/ clients[c].expiresAt # NoExpiry

Resolved(r) ==
    /\ ShapeOk(req[r].hdr)
    /\ \E c \in Matching(req[r].hdr) : req[r].client = clients[c]
    /\ req[r].client.isActive

LookupFailed(r) ==
    /\ req[r].client = NilClient /\ req[r].pc = "done" /\ req[r].status = 500
    /\ req[r].error = "failed to validate API key"
    /\ ShapeOk(req[r].hdr)

\* How many of the conditions bs hold
CountTrue(bs) == Cardinality({i \in 1..Len(bs) : bs[i]})

\* The requests Authenticate has answered or passed on
Identified == {r \in Req : req[r].pc \notin {"idle", "auth"}}

\* Past Authenticate: in RateLimit or in the handler
PastAuth(r) ==
    \/ req[r].pc \in {"getLimiter", "lockLimiter", "allow", "increment",
                      "handler", "execute", "log"}
    \/ req[r].lim # 0 \/ req[r].admitted \/ req[r].execs > 0

\* C10 as stated: identity resolution ends in exactly one of four outcomes.
IdentityFourOutcomes ==
    \A r \in Identified :
        CountTrue(<<Unauthenticated(r), InvalidCredential(r), Forbidden(r),
                    Resolved(r)>>) = 1

\* The outcomes of identity resolution, the failed store lookup among them, and
\* only a resolved, active client past Authenticate
IdentityInv ==
    /\ \A r \in Identified :
         CountTrue(<<Unauthenticated(r), InvalidCredential(r), Forbidden(r),
                     Resolved(r), LookupFailed(r)>>) = 1
    /\ \A r \in Req : PastAuth(r) => Resolved(r)

\* Authenticate passes a request on only with a client that has not expired at
\* that time, and answers "expired" only for one that has
IdentityStep ==
    \A r \in Req :
        req[r].pc = "auth" =>
            /\ req'[r].pc = "getLimiter"
                  => \/ req'[r].client.expiresAt = NoExpiry
                     \/ req'[r].client.expiresAt >= now
            /\ req'[r].error = "API key has expired"
                  => \E c \in Matching(req[r].hdr) :
                        /\ clients[c].expiresAt # NoExpiry
                        /\ clients[c].expiresAt < now

\* C10: identity resolution yields exactly one of five outcomes: Unauthenticated
\* (401) for a missing or non-Bearer header, InvalidCredential (401) for a
\* credential of the wrong shape or of no client, Forbidden (403) for an inactive
\* or expired client, an internal error (500) when the store lookup fails, and
\* otherwise the resolved client; no request is in RateLimit or in a handler
\* without a resolved client that is active and was unexpired when it passed.
IdentityFiveOutcomes == [] IdentityInv /\ [][IdentityStep]_vars

\* A store lookup failed for one request while another was resolved and admitted
IdentityLookupFailureSeen ==
    \E r1, r2 \in Req : LookupFailed(r1) /\ Resolved(r2) /\ req[r2].admitted

----------------------------------------------------------------------------
(* Properties of the chat handler (Spec) *)

\* x is an element of the list
\* The handler of request r has come to its allow-list check: the body decoded,
\* a model was resolved and the provider is registered and available
AtAllowListCheck(r) ==
    /\ req[r].counted # "none" /\ req[r].pc # "handler"
    /\ req[r].body.valid /\ req[r].model # ""
    /\ req[r].provider \in HandlerProviders /\ installed[req[r].provider]

\* The handler of request r went on to the dispatch
PassedToDispatch(r) == req[r].pc \in {"execute", "log"} \/ req[r].execs > 0

\* C11: a request that comes to the allow-list check passes it iff its model is,
\* verbatim, an element of the client's allow-list or the allow-list holds the
\* wildcard "*"; otherwise it is answered 403, model not allowed.
AllowListDecides ==
    /\ \A r \in Req :
         AtAllowListCheck(r) =>
            LET listed == \/ InList(req[r].client.allowedModels, req[r].model)
                          \/ InList(req[r].client.allowedModels, "*")
            IN /\ PassedToDispatch(r) <=> listed
               /\ ModelNotAllowed(r) <=> ~listed
    /\ \A r \in Req :
         (PassedToDispatch(r) \/ ModelNotAllowed(r)) => AtAllowListCheck(r)

\* A model passed by the wildcard alone and a model that is not in the list
AllowListBothWays ==
    \E r1, r2 \in Req :
        /\ PassedToDispatch(r1) /\ ~InList(req[r1].client.allowedModels, req[r1].model)
        /\ ModelNotAllowed(r2) /\ req[r2].client.allowedModels = <<"m1">>
----------------------------------------------------------------------------
(* Properties of the client store (AdminSpec) *)

\* C12: every stored client has a non-empty allowed-model list, because each
\* creation path deals with an empty list before CreateClient: AddClientJSON stores
\* the wildcard in its place, addClientInteractive and HandleCreateClient refuse it
\* and create nothing
StoredClientsHaveModels ==
    /\ \A c \in DOMAIN clients :
         clients[c].id = c /\ Len(clients[c].allowedModels) > 0
    /\ (op.name = "AddClientJSON" /\ op.id # 0 /\ Len(op.models) = 0)
          => clients[op.id].allowedModels = <<"*">>
    /\ (op.id # 0 /\ Len(op.models) > 0) => clients[op.id].allowedModels = op.models
    /\ (op.name \in {"addClientInteractive", "HandleCreateClient"}
          /\ Len(op.models) = 0)
          => op.id = 0 /\ op.error # ""

\* A client was created from an input without models
EmptyListBecameWildcard ==
    /\ op.name = "AddClientJSON" /\ op.models = <<>> /\ op.id \in DOMAIN clients
    /\ clients[op.id].allowedModels = <<"*">>
\* The request is past the decoding of its body in the handler
Decoded(r) == req[r].counted # "none" /\ req[r].pc # "handler" /\ req[r].body.valid

\* The handler answered that no model could be resolved
ModelRequired(r) ==
    /\ req[r].pc = "done" /\ req[r].status = 400
    /\ req[r].error = "model is required (no default configured)"

ResolutionInv ==
    \A r \in Req :
        Decoded(r) =>
            /\ req[r].body.model # "" => req[r].model = req[r].body.model
            /\ (req[r].body.model = "" /\ req[r].client.defaultModel # "")
                  => req[r].model = req[r].client.defaultModel
            /\ req[r].model = "" <=> ModelRequired(r)
            /\ ModelRequired(r) => req[r].execs = 0 /\ req[r].inserts = 0

ResolutionStep ==
    \A r \in Req :
        (/\ req[r].pc = "handler" /\ req'[r].pc # "handler" /\ req'[r].body.valid
         /\ req'[r].body.model = "" /\ req[r].client.defaultModel = ""
         /\ req[r].client.provider \in HandlerProviders)
        => LET models == GetSupportedModels(req[r].client.provider,
                                            modelsCache'[req[r].client.provider])
           IN req'[r].model = IF Len(models) > 0 THEN models[1] ELSE ""

\* C13: the model of a request is the model of its body, else the default of its
\* client, else the first model its provider lists; when all three are empty the
\* request is answered 400 "model is required" and is neither checked against the
\* allow-list nor dispatched
ModelResolutionOrder == []ResolutionInv /\ [][ResolutionStep]_vars

\* One request got its model from the provider's list and was dispatched, another
\* found none
ModelDiscoveredAndMissing ==
    \E r1, r2 \in Req :
        /\ Decoded(r1) /\ req[r1].body.model = "" /\ req[r1].client.defaultModel = ""
        /\ req[r1].model = "m1" /\ req[r1].execs = 1
        /\ Decoded(r2) /\ ModelRequired(r2) /\ req[r2].client.id = 3
\* The handler answered that the provider of the client is not available
ProviderUnavailable(r) ==
    /\ req[r].pc = "done" /\ req[r].status = 503
    /\ req[r].error = "provider is not available"

\* The request was decoded for a client whose provider's binary does not resolve
BoundToUnavailable(r) ==
    /\ Decoded(r) /\ req[r].client.provider \in Providers
    /\ ~installed[req[r].client.provider]

\* C14 as stated: every request of a client bound to a provider whose binary does
\* not resolve ends with 503, whatever its model and the client's default are
UnavailableAlways503 ==
    \A r \in Req :
        BoundToUnavailable(r) => ProviderUnavailable(r) /\ req[r].execs = 0

\* C14: a request of a client bound to a provider whose binary does not resolve is
\* never dispatched and never logged; it ends with 503 when a model was resolved for
\* it, and with 400 "model is required" when none was, which is the case of a cursor
\* client without default model that sends no model
UnavailableNeverSpawns ==
    \A r \in Req :
        BoundToUnavailable(r) =>
            /\ req[r].pc = "done" /\ req[r].execs = 0 /\ req[r].inserts = 0
            /\ req[r].model # "" => ProviderUnavailable(r)
            /\ req[r].model = "" => ModelRequired(r)
            /\ req[r].model = ""
                  => /\ req[r].client.provider = "cursor" /\ req[r].body.model = ""
                     /\ req[r].client.defaultModel = ""

\* Both answers were given: 503 to a client with a default model, 400 to one without
UnavailableBothAnswers ==
    \E r1, r2 \in Req :
        /\ BoundToUnavailable(r1) /\ ProviderUnavailable(r1)
        /\ req[r1].body.model = "" /\ req[r1].client.defaultModel # ""
        /\ BoundToUnavailable(r2) /\ ModelRequired(r2)
----------------------------------------------------------------------------
(* Properties of the usage statistics (StatsSpec) *)

\* C15: in every result GetUsageStats returns, the by_provider counts and the
\* by_model counts both add up to total_requests
StatsAddUp ==
    (stats.pc = "done" /\ stats.status = 200)
       => /\ SumSet(stats.byProvider, DOMAIN stats.byProvider) = stats.totalRequests
          /\ SumSet(stats.byModel, DOMAIN stats.byModel) = stats.totalRequests
----------------------------------------------------------------------------
(* Properties of the operator's deletion (DeleteSpec) *)

\* The rate-bucket rows of a client
BucketRows(c) == {k \in DOMAIN rateBuckets : k[1] = c}

\* The step in which the operator's deletion of del.id completes
DeletionCompletes ==
    /\ del.pc = "client" /\ del'.pc = "idle"
    /\ op'.name = "DeleteClient" /\ op'.error = ""

DeletionStep ==
    \A c \in ClientIds :
        (DeletionCompletes /\ del.id = c) =>
            /\ op'.id = c /\ c \notin DOMAIN clients'
            /\ GetUsageLogs(c)' = <<>>
            /\ BucketRows(c)' = {}

\* Rows of a client that does not exist come from its requests in flight only
StaysEmptyStep ==
    \A c \in ClientIds :
        (/\ c \notin DOMAIN clients /\ GetUsageLogs(c) = <<>>
         /\ \A r \in InFlight : req[r].client.id # c)
        => GetUsageLogs(c)' = <<>> /\ BucketRows(c)' \subseteq BucketRows(c)

\* C16: when the operator's deletion of a client completes, the client row, all its
\* usage log entries and all its rate-bucket rows are gone, so that GetUsageLogs for
\* its id returns the empty sequence; and it goes on returning it as long as no
\* request of that client is still in flight
DeletionRemovesHistory == [][DeletionStep /\ StaysEmptyStep]_vars

\* Client 1 was deleted after two of its requests had been counted and logged
DeletedWithHistory ==
    /\ op.name = "DeleteClient" /\ op.id = 1 /\ 1 \notin DOMAIN clients
    /\ InFlight = {}
    /\ \A r \in 1..MaxReq : /\ req[r].client.id = 1 /\ req[r].logged = "ok"
                              /\ req[r].counted = "ok"
    /\ GetUsageLogs(1) = <<>> /\ BucketRows(1) = {}
----------------------------------------------------------------------------
(* Properties of the fingerprint (AdminSpec) *)

\* The secrets of the model: those of the clients of the start, those a creation may
\* generate and one that was never issued
Secrets == {"aics_k1", "aics_k2", "aics_k3", "aics_k4", "aics_k5", "aics_zz"} \cup NewKeys

\* The request has a client in its context
HasClient(r) == req[r].client # NilClient

\* C17: the fingerprint is a function of the secret that tells secrets apart; a
\* client row holds the fingerprint of its secret and never the secret; a creation
\* path stores the fingerprint of the key it shows; authentication finds a client by
\* the fingerprint of the presented secret, and two requests have the same client in
\* their context iff they presented the same secret
FingerprintIsTheOnlyKey ==
    /\ \A s1, s2 \in Secrets : HashAPIKey(s1) = HashAPIKey(s2) <=> s1 = s2
    /\ \A c \in DOMAIN clients :
         /\ clients[c].apiKeyHash \notin Secrets
         /\ \E s \in Secrets : clients[c].apiKeyHash = HashAPIKey(s)
    /\ \A c1, c2 \in DOMAIN clients :
         clients[c1].apiKeyHash = clients[c2].apiKeyHash => c1 = c2
    /\ \A i \in issued :
         /\ i[2] \in DOMAIN clients
         /\ clients[i[2]].apiKeyHash = HashAPIKey(i[1])
    /\ \A r \in Req :
         HasClient(r) =>
            /\ req[r].client.apiKeyHash = HashAPIKey(Credential(req[r].hdr))
            /\ req[r].client.id \in DOMAIN clients
            /\ req[r].client = clients[req[r].client.id]
    /\ \A r1, r2 \in Req :
         (HasClient(r1) /\ HasClient(r2)) =>
            (req[r1].client.id = req[r2].client.id
                <=> Credential(req[r1].hdr) = Credential(req[r2].hdr))

\* A created client and a client of the start were each found by their own secret
NewSecretResolved ==
    \E r1, r2 \in Req :
        /\ HasClient(r1) /\ req[r1].client.id = 1 /\ Credential(req[r1].hdr) = "aics_k1"
        /\ HasClient(r2) /\ <<Credential(req[r2].hdr), req[r2].client.id>> \in issued
----------------------------------------------------------------------------
(* Properties of Execute (ExecSpec) *)

\* The states in which an Execute call ends, and the steps of a call
Terminal == {"completed", "timedOut", "spawnFailed"}

ProcEdges == {<<"none", "pending">>, <<"pending", "spawned">>,
              <<"pending", "spawnFailed">>, <<"spawned", "completed">>,
              <<"spawned", "timedOut">>}

\* Execute returned an error to the handler, or will
Failed(r) ==
    /\ req[r].proc \in Terminal
    /\ ~(req[r].proc = "completed" /\ req[r].exitOk)

ExecuteInv ==
    \A r \in Req :
        /\ req[r].execs = IF req[r].proc = "none" THEN 0 ELSE 1
        /\ req[r].spawns = IF req[r].proc \in {"spawned", "completed", "timedOut"}
                           THEN 1 ELSE 0
        /\ req[r].proc # "none" => req[r].pc \in {"execute", "log", "done"}
        /\ (req[r].pc \in {"log", "done"} /\ req[r].execs > 0)
              => /\ req[r].proc \in Terminal
                 /\ req[r].result.ok <=> ~Failed(r)
        /\ (req[r].pc = "done" /\ Failed(r))
              => /\ req[r].status = 500 /\ req[r].error = "CLI execution failed"
                 /\ req[r].resp = NoResp

ExecuteStep ==
    \A r \in Req :
        \/ req'[r].proc = req[r].proc
        \/ <<req[r].proc, req'[r].proc>> \in ProcEdges

DeadlineInv ==
    /\ \A p \in Providers :
         /\ \A t \in 1..2 : CallTimeout(p, t) = t
         /\ CallTimeout(p, 0) = IF ConfiguredTimeout[p] = 0 THEN 2 * TicksPerMinute
                                ELSE ConfiguredTimeout[p]
    /\ \A r \in Req :
         /\ req[r].proc = "spawned"
               => /\ now <= req[r].deadline
                  /\ req[r].cancelled => now = req[r].cancelAt
         /\ req[r].proc = "timedOut"
               => /\ req[r].cancelled \/ now >= req[r].deadline
                  /\ req[r].pc \in {"log", "done"} => ~req[r].result.ok

DeadlineStep ==
    \A r \in Req :
        (req[r].proc = "none" /\ req'[r].proc = "pending")
        => req'[r].deadline =
              now + (IF ConfiguredTimeout[req[r].provider] = 0 THEN 2 * TicksPerMinute
                     ELSE ConfiguredTimeout[req[r].provider])

\* C19: the deadline of a call is its start plus the timeout of the request if it has
\* one, else the configured timeout of the provider, else 120 s (the handler supplies
\* none); a process is never running at a time after its deadline or after the
\* cancellation of the inbound request: it is killed, and Execute returns an error
NeverOutlivesDeadline == []DeadlineInv /\ [][DeadlineStep]_vars

\* One process was killed at the default deadline, another on cancellation before
\* its deadline
KilledAtDeadlineAndOnCancel ==
    \E r1, r2 \in Req :
        /\ req[r1].pc = "done" /\ req[r1].proc = "timedOut" /\ ~req[r1].cancelled
        /\ req[r1].provider = "copilot" /\ req[r1].deadline = 2 * TicksPerMinute
        /\ req[r2].pc = "done" /\ req[r2].proc = "timedOut" /\ req[r2].cancelled
        /\ req[r2].cancelAt < req[r2].deadline
----------------------------------------------------------------------------
(* Properties of the dispatch (HandlerSpec) *)

----------------------------------------------------------------------------
(* Properties of the chat response (HandlerSpec) *)

\* The request was answered 200 with a ChatCompletionResponse
Succeeded(r) == req[r].pc = "done" /\ req[r].status = 200

\* C21: no two successful chat responses carry the same id
ResponseIdsUnique ==
    \A r1, r2 \in Req :
        (r1 # r2 /\ Succeeded(r1) /\ Succeeded(r2)) => req[r1].resp.id # req[r2].resp.id

\* The usage log entries written for request r: those of its client that carry the
\* number of its response id
EntriesOf(r) ==
    {i \in 1..Len(usageLogs) :
        /\ usageLogs[i].clientID = req[r].client.id
        /\ req[r].resp.id = "chatcmpl-" \o ToString(usageLogs[i].id)}

\* C22: the model of a successful response, and of the usage log entry written for
\* it, is the model that was resolved for the request, for copilot and for cursor
ResponseEchoesModel ==
    \A r \in Req :
        Succeeded(r) =>
            /\ req[r].resp.model = req[r].model
            /\ \A i \in EntriesOf(r) : usageLogs[i].model = req[r].model
----------------------------------------------------------------------------
(* The helpers of the chat handler, each applied to one input *)

HelperInit == \E c \in HelperCalls : InitCall([p \in Providers |-> p = "copilot"], c)

HelperNext == BuildPrompt \/ EstimateCost

HelperSpec == HelperInit /\ [][HelperNext]_vars

----------------------------------------------------------------------------
(* Properties of the helpers (HelperSpec) *)

\* The contents of the messages whose role is "user", in their order
UserContents(messages) ==
    LET u == SelectSeq(messages, LAMBDA m : m.role = "user")
    IN [i \in 1..Len(u) |-> u[i].content]

\* strings.Join: sep between consecutive parts
RECURSIVE JoinStrings(_, _)
JoinStrings(parts, sep) ==
    IF Len(parts) = 0 THEN ""
    ELSE IF Len(parts) = 1 THEN parts[1]
    ELSE parts[1] \o sep \o JoinStrings(Tail(parts), sep)

\* sep after every part
RECURSIVE EachFollowedBy(_, _)
EachFollowedBy(parts, sep) ==
    IF Len(parts) = 0 THEN ""
    ELSE parts[1] \o sep \o EachFollowedBy(Tail(parts), sep)

PromptBuilt == call.fn = "messagesToPrompt" /\ call.done

\* C23 as stated: the prompt is the contents of the user messages, in order, joined by
\* a newline between consecutive contents
PromptIsJoined ==
    PromptBuilt => call.out[1] = JoinStrings(UserContents(call.args[1]), "\n")

\* C23: the prompt is the contents of exactly the user messages, in their original
\* order, each followed by a newline (the last one included); messages of every other
\* role contribute nothing
PromptIsUserLines ==
    PromptBuilt => call.out[1] = EachFollowedBy(UserContents(call.args[1]), "\n")

\* Two user messages around a message of another role were turned into a prompt
PromptOfMixedRoles ==
    /\ PromptBuilt
    /\ Len(call.args[1]) = 3
    /\ call.args[1][1] = [role |-> "user", content |-> "a"]
    /\ call.args[1][2] = [role |-> "system", content |-> "b"]
    /\ call.args[1][3] = [role |-> "user", content |-> "b"]
    /\ call.out[1] = "a\nb\n"

CostEstimated == call.fn = "calculateCost" /\ call.done

\* C24: for a fixed model and token counts t1 <= t2 the cost of t1 is at most the cost
\* of t2, and a model absent from the price table is billed at the default rate
CostMonotonicWithDefault ==
    CostEstimated =>
        /\ call.args[2] <= call.args[3] => call.out[1] <= call.out[2]
        /\ call.args[1] \notin PriceTable =>
               /\ call.out[1] = call.args[2] * DefaultRate
               /\ call.out[2] = call.args[3] * DefaultRate

\* A model outside the price table was billed for two different token counts
UnknownModelBilled ==
    /\ CostEstimated
    /\ call.args[1] = "m1" /\ call.args[2] = 1 /\ call.args[3] = MaxTokens
    /\ call.out[1] < call.out[2]
----------------------------------------------------------------------------
(* Usage queries against a table left by earlier requests *)

MaxRows == 3

\* The usage_logs tables of up to MaxRows entries of two clients: ids in insertion
\* order, timestamps in any order (an entry carries the instant its request began)
UsageRow(c, t, i) ==
    [id |-> i, clientID |-> c, timestamp |-> t, provider |-> "copilot", model |-> "m1",
     prompt |-> "ping\n", promptTokens |-> 1, completionTokens |-> 2, totalTokens |-> 3,
     cost |-> calculateCost("m1", 3), responseStatus |-> 200, errorMessage |-> ""]

UsageTables ==
    UNION {{[i \in 1..n |-> UsageRow(k[i][1], k[i][2], i)]
              : k \in [1..n -> {1, 2} \X (0..MaxTime)]} : n \in 0..MaxRows}

UsageInit ==
    \E t \in UsageTables :
        /\ usageLogs = t
        /\ nextLogId = Len(t) + 1
        /\ call = NoCall
        /\ mi = NoModelsInfo
        /\ sweep = [next |-> SweepMinutes * TicksPerMinute]
        /\ now = MaxTime
        /\ clients = InitClients
        /\ installed = [p \in Providers |-> p = "copilot"]
        /\ modelsCache = [p \in Providers |-> [cached |-> FALSE, models |-> <<>>]]
        /\ limiters = [c \in ClientIds |-> 0]
        /\ limObj = <<>>
        /\ rateBuckets = <<>>
        /\ req = [r \in Req |-> IdleReq]
        /\ rl = [c \in ClientIds |->
                   [x \in Ticks |-> [avail |-> -1, calls |-> 0, admits |-> 0]]]
        /\ nextClientId = Cardinality(DOMAIN InitClients) + 1
        /\ issued = {}
        /\ op = NoOp
        /\ del = [pc |-> "idle", id |-> 0]
        /\ stats = NoStats

UsageNext == HandleGetUsage

UsageSpec == UsageInit /\ [][UsageNext]_vars

----------------------------------------------------------------------------
(* Properties of the usage query (UsageSpec) *)

UsageAnswered == call.fn = "HandleGetUsage" /\ call.out.status = 200

\* The parameter values that are absent or not valid
BadLimits == {"", "0", "-1", "abc"}
BadOffsets == {"", "-1", "x"}

\* The entries of client c whose timestamp lies in the range the parameters give:
\* a bound that is absent or does not parse bounds nothing
InRange(c, st, et) ==
    {i \in 1..Len(usageLogs) :
        /\ usageLogs[i].clientID = c
        /\ \A t \in 0..(Len(RFC3339) - 1) :
              /\ st = RFC3339[t + 1] => usageLogs[i].timestamp >= t
              /\ et = RFC3339[t + 1] => usageLogs[i].timestamp <= t}

UsagePageCorrect ==
    UsageAnswered =>
        LET c == call.args[1]
            logs == call.out.logs
            limit == call.out.limit
            offset == call.out.offset
            all == InRange(c, call.args[4], call.args[5])
            got == {i \in all : \E k \in 1..Len(logs) : logs[k] = usageLogs[i]}
        IN /\ call.args[2] \in BadLimits => limit = 100
           /\ call.args[2] = "1" => limit = 1
           /\ call.args[2] = "2" => limit = 2
           /\ call.args[3] \in BadOffsets => offset = 0
           /\ call.args[3] = "0" => offset = 0
           /\ call.args[3] = "1" => offset = 1
           \* only entries of the client in the range, none twice
           /\ \A k \in 1..Len(logs) : \E i \in all : logs[k] = usageLogs[i]
           /\ Cardinality(got) = Len(logs)
           \* most recent first
           /\ \A j, k \in 1..Len(logs) : j < k => logs[j].timestamp >= logs[k].timestamp
           \* offset entries skipped, at most limit returned
           /\ Len(logs) = Min(limit, Max(0, Cardinality(all) - offset))
           /\ \E skipped \in SUBSET (all \ got) :
                 /\ Cardinality(skipped) = Min(offset, Cardinality(all))
                 /\ \A i \in skipped, k \in got :
                       usageLogs[i].timestamp >= usageLogs[k].timestamp
                 /\ \A i \in all \ (got \cup skipped), k \in got :
                       usageLogs[i].timestamp <= usageLogs[k].timestamp

\* C25: a usage query returns only entries of the authenticated client whose timestamp
\* lies in the inclusive range when given, most recent first, skipping offset entries
\* and returning at most limit entries; limit is 100 and offset is 0 when the parameter
\* is absent or not valid
UsageQueryReturnsPage == [][call' # call => UsagePageCorrect']_vars

\* A query with limit 1 and offset 1 and a start bound, against a table that holds an
\* older entry, two entries in the range and an entry of another client, returned the
\* second most recent entry
SecondPageReturned ==
    /\ UsageAnswered
    /\ call.args = <<1, "1", "1", RFC3339[2], "">>
    /\ Len(usageLogs) = 3
    /\ \E i, j, k \in 1..3 :
          /\ usageLogs[i].clientID = 1 /\ usageLogs[i].timestamp = 2
          /\ usageLogs[j].clientID = 1 /\ usageLogs[j].timestamp = 1
          /\ usageLogs[k].clientID = 2 /\ usageLogs[k].timestamp = 2
          /\ call.out.logs = <<usageLogs[j]>>
----------------------------------------------------------------------------
(* Properties of the limiter map (RateSpec) *)

\* The clients that have a limiter in the map
WithLimiter == {c \in ClientIds : limiters[c] # 0}

\* Every limiter ever created is the one stored for exactly one client, and every
\* caller that getLimiter has returned to holds the limiter stored for its client
LimiterInv ==
    /\ Len(limObj) = Cardinality(WithLimiter)
    /\ \A c1, c2 \in WithLimiter : c1 # c2 => limiters[c1] # limiters[c2]
    /\ \A r \in Req : req[r].lim # 0 => req[r].lim = limiters[req[r].client.id]

\* A stored limiter is neither replaced nor removed
LimiterStep == \A c \in ClientIds : limiters[c] # 0 => limiters'[c] = limiters[c]

----------------------------------------------------------------------------
(* Concurrent GetModelsInfo calls, on any installation *)

ModelsNext ==
    \E k \in Callers :
        \/ \E p \in Providers : CallGetModelsInfo(k, p)
        \/ ReadCache(k)
        \/ LockCache(k)
        \/ FetchDone(k)

ModelsSpec == HandlerInit /\ [][ModelsNext]_vars

----------------------------------------------------------------------------
(* Properties of the model cache (ModelsSpec) *)

\* The callers whose help invocation of provider p is running
Fetching(p) == {k \in Callers : mi.caller[k].pc = "fetching" /\ mi.caller[k].p = p}

\* One discovery at a time, one commit at most, and a call that began after the commit
\* runs no discovery and returns the committed list
CacheInv ==
    /\ \A p \in Providers :
          /\ Cardinality(Fetching(p)) <= 1
          /\ mi.commits[p] <= 1
          /\ mi.commits[p] = 1 <=> modelsCache[p].cached
          /\ modelsCache[p].cached => Len(modelsCache[p].models) > 0
    /\ \A k \in Callers :
          mi.caller[k].after =>
              /\ mi.caller[k].pc \in {"rlock", "done"}
              /\ mi.caller[k].pc = "done" =>
                    /\ ~mi.caller[k].ran
                    /\ mi.caller[k].out = modelsCache[mi.caller[k].p].models

\* A committed cache is not written again
CacheStep == \A p \in Providers : modelsCache[p].cached => modelsCache'[p] = modelsCache[p]

\* C27: under every interleaving of GetModelsInfo calls on one provider at most one
\* discovery runs at a time, the cache is committed at most once, and after a non-empty
\* result has been committed every later call returns that list without a discovery
CachePopulatedOnce == []CacheInv /\ [][CacheStep]_vars

\* Two callers of one provider both found the cache empty under the read lock; one ran
\* the discovery and committed and its next call got the list from the cache, while
\* the other is still on its way to the write lock, where it will find the list
CacheRaceLost ==
    \E k1, k2 \in Callers :
        /\ k1 # k2
        /\ mi.caller[k1].p = mi.caller[k2].p
        /\ mi.caller[k1].pc = "done" /\ mi.caller[k1].after /\ mi.caller[k1].calls = 2
        /\ Len(mi.caller[k1].out) > 0
        /\ mi.caller[k2].pc = "lock" /\ mi.caller[k2].calls = 1
        /\ mi.discoveries[mi.caller[k1].p] = 1
        /\ mi.commits[mi.caller[k1].p] = 1

\* A call whose discovery found no model returned nothing, and a call that ran no
\* discovery read a populated cache: while the cache is empty every call discovers
EmptyInv ==
    \A k \in Callers :
        mi.caller[k].pc = "done" =>
            /\ (mi.caller[k].ran /\ Len(mi.caller[k].fetched) = 0)
                   => mi.caller[k].out = <<>>
            /\ ~mi.caller[k].ran => modelsCache[mi.caller[k].p].cached

\* A discovery that found no model leaves the cache unpopulated
EmptyStep ==
    \A k \in Callers :
        (/\ mi.caller[k].pc = "fetching"
         /\ mi'.caller[k].pc = "done"
         /\ Len(mi'.caller[k].fetched) = 0)
           => /\ ~modelsCache'[mi.caller[k].p].cached
              /\ modelsCache'[mi.caller[k].p].models = <<>>

\* C28: when the help invocation fails or yields no model, GetModelsInfo returns an
\* empty result, leaves the cache unpopulated, and the next call discovers again
EmptyDiscoveryNotCached == []EmptyInv /\ [][EmptyStep]_vars

\* A caller's first discovery found nothing and its second call has discovered again
DiscoveredAgain ==
    \E k \in Callers :
        /\ mi.caller[k].calls = 2 /\ mi.caller[k].pc = "done" /\ mi.caller[k].ran
        /\ mi.discoveries[mi.caller[k].p] = 2
        /\ mi.commits[mi.caller[k].p] = 0
        /\ \A j \in Callers \ {k} : mi.caller[j].calls = 0
----------------------------------------------------------------------------
(* Properties of the rate-bucket table (RateSpec) *)

\* The rows of client c whose window starts in the minute of tick w
RowsOfMinute(c, w) ==
    {k \in DOMAIN rateBuckets : k[1] = c /\ TruncateMinute(k[2]) = TruncateMinute(w)}

\* PRIMARY KEY (client_id, window_start), with window_start the minute of the
\* admission: one row at most for a client and a minute, and a row counts at least
\* the admission that created it
BucketInv ==
    /\ \A c \in ClientIds, w \in Ticks : Cardinality(RowsOfMinute(c, w)) <= 1
    /\ \A k \in DOMAIN rateBuckets : rateBuckets[k] >= 1

\* The count of a row that stays in the table does not decrease
BucketStep ==
    \A k \in DOMAIN rateBuckets :
        k \in DOMAIN rateBuckets' => rateBuckets'[k] >= rateBuckets[k]

\* C29: the rate-bucket table holds at most one row per (client id, window start) in
\* every reachable state, and the request count of a row never decreases, under any
\* interleaving of IncrementRateLimitBucket calls
BucketRowsUniqueAndGrowing == []BucketInv /\ [][BucketStep]_vars

\* Client 1 has been admitted twice in the first minute and once in the next: two
\* rows, the first counted up by a second call
TwoWindowsCounted ==
    /\ <<1, 0>> \in DOMAIN rateBuckets /\ rateBuckets[<<1, 0>>] = 2
    /\ <<1, TicksPerMinute>> \in DOMAIN rateBuckets
----------------------------------------------------------------------------
(* Properties of admission and the durable ledger (RateSpec) *)

\* Request r leaves limiter.Allow() in this step
Decided(r) == req[r].pc = "allow" /\ req'[r].pc # "allow"

\* Request r leaves IncrementRateLimitBucket in this step
Recorded(r) == req[r].pc = "increment" /\ req'[r].pc # "increment"

\* The decision is read off the client's in-memory bucket and the clock alone, and it
\* is the only thing that rejects; whatever IncrementRateLimitBucket returns, the
\* admitted request goes on to the handler; and no step that writes the ledger or
\* records the outcome of the increment touches a bucket
AdmissionStep ==
    /\ \A r \in Req :
          /\ Decided(r) =>
                LET l == limObj[req[r].lim] IN
                /\ req'[r].admitted <=> TokensAt(l, now) >= TicksPerMinute
                /\ req'[r].admitted => req'[r].pc = "increment" /\ req'[r].status = 0
                /\ ~req'[r].admitted => req'[r].pc = "done" /\ req'[r].status = 429
          /\ Recorded(r) =>
                /\ req'[r].pc = "handler" /\ req'[r].admitted /\ req'[r].status = 0
                /\ req'[r].counted \in {"ok", "fail"}
                /\ limiters' = limiters /\ limObj' = limObj /\ rl' = rl
    /\ rateBuckets' # rateBuckets => limiters' = limiters /\ limObj' = limObj /\ rl' = rl

\* C30: the admit/reject decision of RateLimit depends only on the client's in-memory
\* bucket, not on the rate-bucket table nor on whether IncrementRateLimitBucket fails,
\* and a failed increment neither rejects nor fails the admitted request
LedgerDoesNotGate == [][AdmissionStep]_vars

\* Three requests of client 1 (limit 2) in the first tick: the increment of the first
\* failed and it went on to the handler, the second was counted, and the third was
\* rejected although the ledger row of the minute counts one request only
RejectedWithLedgerBehind ==
    \E r1, r2, r3 \in Req :
        /\ req[r1].client.id = 1 /\ req[r2].client.id = 1 /\ req[r3].client.id = 1
        /\ req[r1].pc = "handler" /\ req[r1].counted = "fail"
        /\ req[r2].pc = "handler" /\ req[r2].counted = "ok"
        /\ req[r3].pc = "done" /\ req[r3].status = 429
        /\ now = 0
        /\ rateBuckets[<<1, 0>>] = 1
----------------------------------------------------------------------------
(* Properties of the buckets of different clients (RateSpec) *)

\* The bucket of a client changes only in a step in which a request of that client
\* leaves limiter.Allow(), and the decision of that request is read off the bucket
\* stored for its own client
IndependentStep ==
    /\ \A c \in ClientIds :
          (limiters[c] # 0 /\ limObj'[limiters[c]] # limObj[limiters[c]])
             => \E r \in Req : req[r].client.id = c /\ Decided(r)
    /\ \A c \in ClientIds : limiters[c] # 0 => limiters'[c] = limiters[c]
    /\ \A r \in Req :
          Decided(r) =>
              /\ limiters[req[r].client.id] # 0
              /\ req'[r].admitted <=>
                    TokensAt(limObj[limiters[req[r].client.id]], now) >= TicksPerMinute

\* C31: requests of client A, admitted or rejected, never change the token count of
\* client B's bucket nor the result of a rate-admission decision for client B
BucketsIndependent == [][IndependentStep]_vars

\* Client 2 has been rejected and client 1 admitted twice in the same tick: the bucket
\* of client 1 was drained by its own two requests only
OtherClientRejected ==
    \E r1, r2, r3 \in Req :
        /\ r1 # r2
        /\ req[r1].client.id = 1 /\ req[r1].admitted
        /\ req[r2].client.id = 1 /\ req[r2].admitted
        /\ req[r3].client.id = 2 /\ req[r3].pc = "done" /\ req[r3].status = 429
        /\ now = 0
        /\ limiters[1] # 0 /\ limiters[2] # 0
        /\ limObj[limiters[1]].tokens = 0
----------------------------------------------------------------------------
(* Properties of the usage log entries (DeleteSpec) *)

\* The ids of the entries in the table
LogIds(tbl) == {tbl[i].id : i \in 1..Len(tbl)}

\* This step is a statement of the deletion of client c
DeletionOf(c) ==
    \/ del.pc = "idle" /\ del'.pc = "client" /\ del'.id = c
    \/ del.pc = "client" /\ del.id = c /\ del'.pc = "idle"

\* No two entries share an id
LogIdsInv ==
    \A i, j \in 1..Len(usageLogs) : i # j => usageLogs[i].id # usageLogs[j].id

\* An entry that stays keeps every field, and an entry goes only in a statement of the
\* deletion of its client
LogFrameStep ==
    \A i \in 1..Len(usageLogs) :
        LET row == usageLogs[i] IN
        IF row.id \in LogIds(usageLogs')
        THEN \E j \in 1..Len(usageLogs') : usageLogs'[j] = row
        ELSE DeletionOf(row.clientID)

\* C32: no operation changes a field of an existing usage log entry, an entry
\* disappears only through the deletion of its client, and no request deletes or
\* rewrites a row written by another request
EntriesNeverMutated == []LogIdsInv /\ [][LogFrameStep]_vars

\* A second request has been logged next to the entry of the first
SecondEntryBesideFirst ==
    /\ Len(usageLogs) = 2
    /\ usageLogs[1].id = 1 /\ usageLogs[2].id = 2
    /\ \A r \in 1..MaxReq : req[r].pc = "done" /\ req[r].logged = "ok"
----------------------------------------------------------------------------
(* Properties of a failed execution (ExecSpec) *)

\* Request r, whose Execute returned an error, writes its entry and answers in this step
FailureAnswered(r) ==
    req[r].pc = "log" /\ Failed(r) /\ req'[r].pc = "done"

\* The entry of a failed execution: error status and text, no tokens, no cost
FailureEntry(row, q) ==
    /\ row.clientID = q.client.id
    /\ row.provider = q.provider /\ row.model = q.model /\ row.prompt = q.prompt
    /\ row.responseStatus = 500 /\ row.errorMessage # ""
    /\ row.promptTokens = 0 /\ row.completionTokens = 0 /\ row.totalTokens = 0
    /\ row.cost = 0

\* The handler inserts one entry of that shape (the table gains it when the insert
\* succeeds and is unchanged when it fails) and answers 500 either way
FailureStep ==
    \A r \in Req :
        FailureAnswered(r) =>
            /\ req'[r].status = 500 /\ req'[r].error # "" /\ req'[r].resp = NoResp
            /\ req'[r].inserts = 1
            /\ IF req'[r].logged = "ok"
               THEN /\ Len(usageLogs') = Len(usageLogs) + 1
                    /\ SubSeq(usageLogs', 1, Len(usageLogs)) = usageLogs
                    /\ FailureEntry(usageLogs'[Len(usageLogs')], req[r])
               ELSE usageLogs' = usageLogs

\* C33: an execution failure (spawn failure, non-zero exit or timeout) of a dispatched
\* request is logged with status 500 and the error text, zero token counts and zero
\* cost, and the caller receives an internal-error response
FailureLogged == [][FailureStep]_vars

\* A request whose process was killed at the deadline has been answered 500 and its
\* entry, with no tokens, is in the table
TimeoutLogged ==
    \E r \in Req :
        /\ req[r].pc = "done" /\ req[r].proc = "timedOut" /\ req[r].status = 500
        /\ req[r].logged = "ok"
        /\ Len(usageLogs) > 0
        /\ FailureEntry(usageLogs[Len(usageLogs)], req[r])
        /\ EstimateTokens(req[r].prompt) > 0
----------------------------------------------------------------------------
(* Authenticate alone, on well-formed and malformed headers *)

AuthHeaders == Headers \cup {"Bearer", "Bearer ", "Bearer aic", "bearer aics_k1", "aics_k1"}

AuthNext == \E r \in 1..MaxReq : Arrive(r, AuthHeaders) \/ Authenticate(r)

AuthSpec == Init /\ [][AuthNext]_vars

----------------------------------------------------------------------------
(* Properties of the shape check (AuthSpec) *)

\* C34: a request whose header is missing, is not of the Bearer form, or carries a
\* candidate without the key prefix (a shorter one included) is answered 401 without
\* any call of GetClientByAPIKeyHash; a candidate of the right shape is looked up once
ShapeCheckedBeforeStore ==
    \A r \in Req :
        req[r].pc \notin {"idle", "auth"} =>
            IF ShapeOk(req[r].hdr)
            THEN req[r].lookups = 1
            ELSE req[r].lookups = 0 /\ req[r].pc = "done" /\ req[r].status = 401

\* A candidate shorter than the prefix was turned away without a lookup, and a
\* well-formed unknown one after a lookup
MalformedAndUnknownRejected ==
    \E r1, r2 \in Req :
        /\ req[r1].hdr = "Bearer aic" /\ req[r1].pc = "done" /\ req[r1].status = 401
        /\ req[r1].lookups = 0
        /\ req[r2].hdr = "Bearer aics_zz" /\ req[r2].pc = "done" /\ req[r2].status = 401
        /\ req[r2].lookups = 1
----------------------------------------------------------------------------
(* The sweep over more than an hour, with the ledger writes of two admissions *)

SweepNext == SweepPass \/ RecordAdmission \/ SweepOk \/ SweepFail

SweepSpec == Init /\ [][SweepNext]_vars

\* Time passes, and the purge statement does not fail for ever
SweepFairSpec == SweepSpec /\ WF_vars(SweepPass) /\ SF_vars(SweepOk)

----------------------------------------------------------------------------
(* Properties of the sweep (SweepFairSpec) *)

\* The rows whose window started more than the retention horizon ago
OldRows == {k \in DOMAIN rateBuckets :
               k[2] < now - RetentionMinutes * TicksPerMinute}

\* This step is a round of cleanupLimiters whose statement succeeded
Swept == sweep' # sweep /\ rateBuckets' # rateBuckets

\* A row leaves the table only when it is older than the horizon, which the row of the
\* current minute is not; a round that deletes deletes every such row; and a round
\* needs nothing but its ticker
SweepStep ==
    /\ \A k \in DOMAIN rateBuckets :
          k \notin DOMAIN rateBuckets' => k \in OldRows /\ k[2] # TruncateMinute(now)
    /\ Swept => DOMAIN rateBuckets' = DOMAIN rateBuckets \ OldRows
    /\ sweep' # sweep => SweepDue /\ req' = req

\* C35: the periodic sweep runs on its own timer, deletes exactly the rows whose
\* window start is older than the retention horizon of one hour, never a row inside
\* the horizon and never the row of the current minute, and every row that has become
\* older than the horizon is eventually removed (a row that is old stays old, so the
\* table being free of old rows again and again removes each of them)
SweepPurgesOldRows ==
    /\ [][SweepStep]_vars
    /\ (OldRows # {}) ~> (OldRows = {})

\* A round has removed the row of the first minute and left the row of the current one
OldRowPurgedCurrentKept ==
    /\ now > RetentionMinutes * TicksPerMinute
    /\ DOMAIN rateBuckets = {<<1, TruncateMinute(now)>>}
    /\ sweep.next > now
    /\ sweep.next > (RetentionMinutes + SweepMinutes) * TicksPerMinute
----------------------------------------------------------------------------
(* GetModelsInfo under fair scheduling *)

\* Every goroutine that can take a step of GetModelsInfo takes it, and a mutex that
\* is free is acquired.  The help invocation is exec.Command(binary, "-h") with no
\* context and no deadline: nothing makes the process end, so FetchDone is left to
\* the process.
ModelsFairSpec ==
    /\ ModelsSpec
    /\ \A k \in Callers : WF_vars(ReadCache(k)) /\ WF_vars(LockCache(k))

----------------------------------------------------------------------------
(* Properties of termination (ModelsFairSpec) *)

\* C36, for a request that needs model discovery: the call the handler makes returns,
\* so that the request goes on to its one response
DiscoveryReturns ==
    \A k \in Callers : (mi.caller[k].pc = "rlock") ~> (mi.caller[k].pc = "done")
----------------------------------------------------------------------------
(* Properties of the requests the handler rejects after admission (HandlerSpec) *)

\* The requests of client c that RateLimit passed on
AdmittedOf(c) == {r \in Req : req[r].client.id = c /\ req[r].admitted}

\* Those of them the handler answered without calling the provider
HandlerRejected(c) ==
    {r \in AdmittedOf(c) : req[r].pc = "done" /\ req[r].execs = 0}

\* The requests of client c whose increment of the ledger was stored
CountedOf(c) == {r \in Req : req[r].client.id = c /\ req[r].counted = "ok"}

\* The count of the ledger row of client c for the current minute
LedgerCount(c) ==
    IF <<c, TruncateMinute(now)>> \in DOMAIN rateBuckets
    THEN rateBuckets[<<c, TruncateMinute(now)>>] ELSE 0

\* The usage log entries of client c
LogsOf(c) == {i \in 1..Len(usageLogs) : usageLogs[i].clientID = c}

RejectedInv ==
    \A c \in ClientIds :
        /\ \A r \in HandlerRejected(c) :
              /\ req[r].status \in {400, 403, 503}
              /\ req[r].counted \in {"ok", "fail"}
              /\ req[r].logged = "none"
        /\ limiters[c] # 0 =>
              limObj[limiters[c]].tokens =
                  (limObj[limiters[c]].burst - Cardinality(AdmittedOf(c))) * TicksPerMinute
        /\ LedgerCount(c) = Cardinality(CountedOf(c))
        /\ (\A r \in AdmittedOf(c) : req[r].counted # "fail") =>
              LedgerCount(c) >= Cardinality(LogsOf(c)) + Cardinality(HandlerRejected(c))

\* A step of the handler gives nothing back
NoRefundStep ==
    (\E r \in Req : req[r].pc \in {"handler", "execute", "log"} /\ req'[r] # req[r])
        => limObj' = limObj /\ rateBuckets' = rateBuckets

\* C37: a request that passed the rate limiter and that the handler then rejected
\* before dispatch has taken one token of its client's bucket and, the store
\* permitting, one count of the ledger; no step of the handler gives either back, so
\* within the period the bucket holds its burst less every admitted request, and the
\* ledger counts at least the usage log entries plus the rejected requests
RejectedStillCharged == []RejectedInv /\ [][NoRefundStep]_vars

\* The one request a minute of client 3 went to a request the handler rejected; the
\* next one is refused, and the ledger counts 1 where the usage log has nothing
RejectedThenRefused ==
    \E r1, r2 \in 1..MaxReq :
        /\ r1 \in HandlerRejected(3)
        /\ req[r2].client.id = 3 /\ req[r2].status = 429
        /\ LedgerCount(3) = 1 /\ LogsOf(3) = {}
----------------------------------------------------------------------------
(* UpdateClient while the server runs *)

\* UPDATE clients SET ..., rate_limit_per_minute = ?, ... WHERE id = ?
UpdateClient(client) ==
    /\ client.id \in DOMAIN clients
    /\ clients[client.id] # client
    /\ clients' = [clients EXCEPT ![client.id] = client]
    /\ UNCHANGED <<tool, now, installed, modelsCache, limiters, limObj, rateBuckets,
                   usageLogs, nextLogId, req, rl>>

\* The rates an operator gives client 1, whose row was created with 2
UpdatedRates == {1, 2}

\* The rate of client 1 is changed while the middleware chain serves its requests
UpdateNext ==
    \/ Tick
    \/ \E n \in UpdatedRates : UpdateClient([clients[1] EXCEPT !.rateLimitPerMinute = n])
    \/ \E r \in 1..MaxRateReq :
         \/ Arrive(r, ScenarioHeaders)
         \/ Middleware(r)

UpdateSpec == Init /\ [][UpdateNext]_vars

----------------------------------------------------------------------------
(* Properties of the limiter under changes of the client's rate (UpdateSpec) *)

\* The limiter of a client, once in the map, stays the one in the map and keeps its
\* burst and its refill rate; the one that is put in the map has the rate of the
\* client record of the request that creates it
LimiterFrozenStep ==
    \A c \in ClientIds :
        IF limiters[c] # 0
        THEN /\ limiters'[c] = limiters[c]
             /\ limObj'[limiters[c]].burst = limObj[limiters[c]].burst
             /\ limObj'[limiters[c]].perMinute = limObj[limiters[c]].perMinute
        ELSE limiters'[c] # 0 =>
               \E r \in Req :
                   /\ req[r].pc = "lockLimiter" /\ req[r].client.id = c
                   /\ req'[r].lim = limiters'[c]
                   /\ limObj'[limiters'[c]].burst = req[r].client.rateLimitPerMinute
                   /\ limObj'[limiters'[c]].perMinute = req[r].client.rateLimitPerMinute

\* Every request is admitted or refused by the limiter of the map
LimiterUsedInv ==
    \A r \in Req :
        req[r].lim # 0 => req[r].lim = limiters[req[r].client.id]

\* C38: a client's limiter is made with the rate limit of the client record of the
\* request that creates it; from then on it is the limiter every request of the
\* client is admitted by, and no change of rate_limit_per_minute in the store changes
\* its capacity or its refill rate
LimiterNeverReread == []LimiterUsedInv /\ [][LimiterFrozenStep]_vars

\* The store says one request a minute; a request authenticated after that change is
\* the second one admitted within the tick, by the limiter made for two a minute
AdmittedByOldRate ==
    \E r1, r2 \in 1..MaxRateReq :
        /\ r1 # r2
        /\ clients[1].rateLimitPerMinute = 1
        /\ req[r2].client.rateLimitPerMinute = 1
        /\ req[r1].admitted /\ req[r2].admitted
        /\ limObj[limiters[1]].burst = 2
        /\ Len(limObj) = 1 /\ limObj[1].tokens = 0 /\ limObj[1].last = now
----------------------------------------------------------------------------
(* Properties of a deletion that races with a request (DeleteSpec) *)

\* C39: no usage log entry refers to a client whose deletion has completed, also when
\* a request of that client was authenticated before the deletion and inserts its
\* entry after it
NoOrphanAfterDeletion ==
    \A i \in 1..Len(usageLogs) : usageLogs[i].clientID \in DOMAIN clients
----------------------------------------------------------------------------
(* The two usage endpoints over tables that hold entries of two clients *)

\* Client 1 asks once for its usage, or for its statistics, of a table that holds
\* entries of clients 1 and 2
IsolationNext ==
    \/ stats.pc = "idle" /\ HandleGetUsage
    \/ call.fn = "" /\ (StatsTotals \/ StatsByProvider \/ StatsByModel)

IsolationSpec == UsageInit /\ [][IsolationNext]_vars

----------------------------------------------------------------------------
(* Properties of the isolation of usage data (IsolationSpec) *)

\* The table without the entries of the other clients
OwnEntries(c) == SelectSeq(usageLogs, LAMBDA row : row.clientID = c)

\* The positions of tbl whose timestamp lies within the bounds
WithinBounds(tbl, st, et) ==
    {i \in 1..Len(tbl) :
        /\ st = NoTime \/ tbl[i].timestamp >= st
        /\ et = NoTime \/ tbl[i].timestamp <= et}

\* The pages a listing of the whole of tbl may return
PagesOf(tbl, limit, offset, st, et) ==
    LET rows   == WithinBounds(tbl, st, et)
        orders == {f \in [1..Cardinality(rows) -> rows] :
                      /\ \A i, j \in DOMAIN f : i # j => f[i] # f[j]
                      /\ \A i, j \in DOMAIN f :
                            i < j => tbl[f[i]].timestamp >= tbl[f[j]].timestamp}
    IN {[i \in 1..Max(0, Min(offset + limit, Len(f)) - offset) |-> tbl[f[offset + i]]]
          : f \in orders}

\* The listing of client c is a listing of the table that holds its entries only
ListingIsolated ==
    UsageAnswered =>
        LET c   == call.args[1]
            own == PagesOf(OwnEntries(c), call.out.limit, call.out.offset,
                           ParseBound(call.args[4]), ParseBound(call.args[5]))
        IN /\ call.out.logs \in own
           /\ GetUsageLogsPage(c, call.out.limit, call.out.offset,
                               ParseBound(call.args[4]), ParseBound(call.args[5])) = own

\* The figures of client c are those of the table that holds its entries only
StatsIsolated ==
    (stats.pc # "idle" /\ stats.status # 500) =>
        LET own  == OwnEntries(stats.clientID)
            rows == WithinBounds(own, stats.startTime, stats.endTime)
            byProvider == [p \in {own[i].provider : i \in rows} |->
                              Cardinality({i \in rows : own[i].provider = p})]
            byModel    == [m \in {own[i].model : i \in rows} |->
                              Cardinality({i \in rows : own[i].model = m})]
        IN /\ stats.totalRequests = Cardinality(rows)
           /\ stats.totalTokens = SumSet([i \in rows |-> own[i].totalTokens], rows)
           /\ stats.totalCost = SumSet([i \in rows |-> own[i].cost], rows)
           /\ stats.pc \in {"byModel", "done"} => stats.byProvider = byProvider
           /\ stats.pc = "done" => stats.byModel = byModel

\* C40: what the usage listing and the usage statistics return to a client is what
\* they return from the table without the entries of every other client, whatever
\* the parameters of the request: two tables that differ in the entries of other
\* clients only give the same results
UsageIsolated == ListingIsolated /\ StatsIsolated

\* Client 1 is told of one request, by provider and by model, of a table that holds
\* two entries of client 2 as well
OwnFiguresAmongOthers ==
    /\ stats.pc = "done" /\ stats.status = 200 /\ stats.clientID = 1
    /\ stats.totalRequests = 1
    /\ stats.byProvider = [p \in {"copilot"} |-> 1]
    /\ stats.byModel = [m \in {"m1"} |-> 1]
    /\ Len(usageLogs) = MaxRows
    /\ Cardinality({i \in 1..Len(usageLogs) : usageLogs[i].clientID = 2}) = 2

====
